---------------------------- MODULE Spec2Model ----------------------------
(***************************************************************************)
(* A model of the CSV ingestion routes of aida-import-platform:            *)
(*   src/app/api/ingest/shared.ts         filename inference, transforms,  *)
(*                                        applyMappingToRow,               *)
(*                                        dataSourceExists                 *)
(*   src/app/api/ingest/preview/route.ts  the preview / regenerate route   *)
(*   src/app/api/ingest/upsert/route.ts   the confirm (upsert) route       *)
(*                                                                         *)
(* JavaScript strings are TLA+ strings, read character by character with   *)
(* Len, SubSeq and \o.  The JavaScript values null and undefined are the   *)
(* two strings Null and Undefined, which no input of the model contains.   *)
(***************************************************************************)
EXTENDS Naturals, Integers, Sequences, FiniteSets, TLC

VARIABLES
    env,        \* the process environment: which credentials are configured
    models,     \* the store's models table: data_source -> number of rows
    reqs,       \* the requests being handled, one record per request slot
    started,    \* how many requests have been accepted so far
    mapIn,      \* the arguments of one call of applyMappingToRow
    mapOut,     \* its result, once the call has been made
    home,       \* the state of the console component Home (src/unnamed/part_001)
    pending,    \* the asynchronous handlers in flight, one record each
    db,         \* the store's tables models, models_media, models_agencies
    log         \* the calls made so far to the store and to the services

vars == <<env, models, reqs, started, mapIn, mapOut, home, pending, db, log>>

\* the variables of the ingestion routes, and the ones of the other parts
ingestVars == <<env, models, reqs, started, mapIn, mapOut>>
otherVars == <<home, pending, db, log>>

(***************************************************************************)
(* JavaScript values and strings                                           *)
(***************************************************************************)
Null == "<null>"
Undefined == "<undefined>"

\* the console, the handlers in flight, the tables and the log of a
\* specification that has none of them
OtherIdle ==
    /\ home = Null
    /\ pending = << >>
    /\ db = Null
    /\ log = << >>

IsNullish(v) == v = Null \/ v = Undefined

Ch(s, i) == SubSeq(s, i, i)

UpperAlphabet == "ABCDEFGHIJKLMNOPQRSTUVWXYZ"
LowerAlphabet == "abcdefghijklmnopqrstuvwxyz"
DigitAlphabet == "0123456789"

CharsOf(s) == { Ch(s, i) : i \in 1..Len(s) }

LowerLetters == CharsOf(LowerAlphabet)
Digits == CharsOf(DigitAlphabet)
\* \s of a JavaScript regular expression, over the characters the model uses
WhiteSpace == {" ", "\t", "\n", "\r"}

\* the lower-case and the upper-case form of each letter
LowerOf == [c \in CharsOf(UpperAlphabet) |->
               Ch(LowerAlphabet, CHOOSE i \in 1..26 : Ch(UpperAlphabet, i) = c)]
UpperOf == [c \in CharsOf(LowerAlphabet) |->
               Ch(UpperAlphabet, CHOOSE i \in 1..26 : Ch(LowerAlphabet, i) = c)]

LowerChar(c) == IF c \in DOMAIN LowerOf THEN LowerOf[c] ELSE c

UpperChar(c) == IF c \in DOMAIN UpperOf THEN UpperOf[c] ELSE c

\* The character-wise operators below split their range in two, so that the
\* depth of the evaluation grows with the logarithm of the string's length.
RECURSIVE LowerRange(_, _, _)
LowerRange(s, lo, hi) ==
    IF lo > hi THEN ""
    ELSE IF lo = hi THEN LowerChar(Ch(s, lo))
         ELSE LowerRange(s, lo, (lo + hi) \div 2)
                \o LowerRange(s, ((lo + hi) \div 2) + 1, hi)

\* String.prototype.toLowerCase
ToLowerCase(s) == LowerRange(s, 1, Len(s))

RECURSIVE UpperRange(_, _, _)
UpperRange(s, lo, hi) ==
    IF lo > hi THEN ""
    ELSE IF lo = hi THEN UpperChar(Ch(s, lo))
         ELSE UpperRange(s, lo, (lo + hi) \div 2)
                \o UpperRange(s, ((lo + hi) \div 2) + 1, hi)

\* String.prototype.toUpperCase
ToUpperCase(s) == UpperRange(s, 1, Len(s))

SetMin(S) == CHOOSE x \in S : \A y \in S : x <= y
SetMax(S) == CHOOSE x \in S : \A y \in S : x >= y

\* String.prototype.trim
Trim(s) ==
    LET kept == { i \in 1..Len(s) : Ch(s, i) \notin WhiteSpace }
    IN  IF kept = {} THEN "" ELSE SubSeq(s, SetMin(kept), SetMax(kept))

StartsWith(s, p) == Len(s) >= Len(p) /\ SubSeq(s, 1, Len(p)) = p

EndsWith(s, p) ==
    Len(s) >= Len(p) /\ SubSeq(s, Len(s) - Len(p) + 1, Len(s)) = p

\* String.prototype.includes
Includes(s, p) ==
    \E i \in 1..(Len(s) + 1) :
        i + Len(p) - 1 <= Len(s) /\ SubSeq(s, i, i + Len(p) - 1) = p

\* s.replace(/[class]+/g, rep) for the class of the characters in cls
\* (inside = TRUE) or of the characters not in cls (inside = FALSE): the
\* first character of a run becomes rep, the others disappear
RECURSIVE ReplaceRunsRange(_, _, _, _, _, _)
ReplaceRunsRange(s, lo, hi, cls, inside, rep) ==
    IF lo > hi THEN ""
    ELSE IF lo = hi
         THEN IF (Ch(s, lo) \in cls) = inside
              THEN IF lo > 1 /\ ((Ch(s, lo - 1) \in cls) = inside)
                   THEN "" ELSE rep
              ELSE Ch(s, lo)
         ELSE ReplaceRunsRange(s, lo, (lo + hi) \div 2, cls, inside, rep)
                \o ReplaceRunsRange(s, ((lo + hi) \div 2) + 1, hi, cls,
                                    inside, rep)

ReplaceRuns(s, cls, inside, rep) ==
    ReplaceRunsRange(s, 1, Len(s), cls, inside, rep)

\* s.replace(/[class]/g, rep) : every character of the class replaced
RECURSIVE ReplaceCharsRange(_, _, _, _, _, _)
ReplaceCharsRange(s, lo, hi, cls, inside, rep) ==
    IF lo > hi THEN ""
    ELSE IF lo = hi
         THEN IF (Ch(s, lo) \in cls) = inside THEN rep ELSE Ch(s, lo)
         ELSE ReplaceCharsRange(s, lo, (lo + hi) \div 2, cls, inside, rep)
                \o ReplaceCharsRange(s, ((lo + hi) \div 2) + 1, hi, cls,
                                     inside, rep)

ReplaceChars(s, cls, inside, rep) ==
    ReplaceCharsRange(s, 1, Len(s), cls, inside, rep)

RemoveChars(s, cls, inside) == ReplaceChars(s, cls, inside, "")

\* s.replace(/pat/g, rep) for a literal pattern of two or more characters,
\* matched from left to right without overlap
RECURSIVE ReplaceAllFrom(_, _, _, _)
ReplaceAllFrom(s, i, pat, rep) ==
    IF i > Len(s) THEN ""
    ELSE IF i + Len(pat) - 1 <= Len(s) /\ SubSeq(s, i, i + Len(pat) - 1) = pat
         THEN rep \o ReplaceAllFrom(s, i + Len(pat), pat, rep)
         ELSE Ch(s, i) \o ReplaceAllFrom(s, i + 1, pat, rep)

\* s.replace(/pat/g, rep) for a literal pattern
ReplaceAll(s, pat, rep) ==
    IF Len(pat) = 1 THEN ReplaceChars(s, {pat}, TRUE, rep)
    ELSE ReplaceAllFrom(s, 1, pat, rep)

\* s.split(sep) for a one-character separator: the pieces, in order
Split(s, sep) ==
    LET at == { i \in 1..Len(s) : Ch(s, i) = sep }
        nth(k) == CHOOSE p \in at : Cardinality({ q \in at : q <= p }) = k
        n == Cardinality(at) + 1
    IN  [k \in 1..n |->
            SubSeq(s, IF k = 1 THEN 1 ELSE nth(k - 1) + 1,
                      IF k = n THEN Len(s) ELSE nth(k) - 1)]

\* Array.prototype.join
RECURSIVE JoinRange(_, _, _, _)
JoinRange(parts, lo, hi, sep) ==
    IF lo > hi THEN ""
    ELSE IF lo = hi THEN parts[lo]
         ELSE JoinRange(parts, lo, (lo + hi) \div 2, sep) \o sep
                \o JoinRange(parts, ((lo + hi) \div 2) + 1, hi, sep)

Join(parts, sep) == JoinRange(parts, 1, Len(parts), sep)

SeqToSet(q) == { q[i] : i \in 1..Len(q) }

\* Array.prototype.filter, dropping the elements of a set
RECURSIVE FilterOut(_, _)
FilterOut(q, dropped) ==
    IF Len(q) = 0 THEN <<>>
    ELSE IF Head(q) \in dropped
         THEN FilterOut(Tail(q), dropped)
         ELSE <<Head(q)>> \o FilterOut(Tail(q), dropped)

(***************************************************************************)
(* MODELS_FIELDS: the enum columns of the models table and their values    *)
(***************************************************************************)
ModelBoardValues ==
    << "image", "mainboard", "a_new_face", "development",
       "non_binary_aka_x_division", "direct", "youth", "classic",
       "timeless", "curve", "teen", "commercial", "preview", "verve",
       "big_and_tall", "a_family", "couples", "petite", "lifestyle",
       "fit", "runway", "streetcast", "elite", "premier" >>

HairColourValues ==
    << "platinum_blonde", "ash_blonde", "sandy_blonde",
       "strawberry_blonde", "honey_blonde", "black", "grey", "yellow",
       "green", "blue", "purple", "lavender", "emerald_green",
       "rose_gold", "dark_brown", "medium_brown", "light_brown",
       "chestnut_brown", "golden_brown", "ash_brown", "reddish_brown",
       "mahogany_brown", "blonde", "dirty_blonde", "light_blonde",
       "medium_blonde", "dark_blonde", "red", "copper_red",
       "ginger_red", "auburn", "deep_red", "strawberry_red", "white",
       "silver_gray", "salt_and_pepper", "steel_gray", "orange",
       "purple", "lavender", "lilac", "magenta", "electric_blue",
       "turquoise", "teal", "aqua", "sky_blue", "mint_green",
       "neon_green", "pastel_pink", "flamingo_pink", "hot_pink",
       "burgundy", "wine_red", "blood_red", "platinum_silver",
       "gunmetal_gray", "chestnut" >>

EyeColourValues ==
    << "brown", "blue", "green", "hazel", "gray", "gray_green",
       "blue_green", "green_hazel", "dark_brown", "light_brown",
       "blue_grey", "black", "grey_green" >>

SexualityValues == << "gay", "bisexual", "pansexual", "asexual" >>

GenderValues ==
    << "male", "female", "transgender", "non-binary", "transman",
       "transwoman" >>

PronounsValues ==
    << "they_them", "he_him_his", "she_her_hers", "she_they", "she_he" >>

\* The columns of MODELS_FIELDS whose type is 'enum'
EnumColumns ==
    {"model_board_category", "hair_colour", "eye_colour", "sexuality",
     "gender", "pronouns"}

\* MODELS_FIELDS[column].values for an enum column
EnumValuesOf(column) ==
    CASE column = "model_board_category" -> ModelBoardValues
      [] column = "hair_colour" -> HairColourValues
      [] column = "eye_colour" -> EyeColourValues
      [] column = "sexuality" -> SexualityValues
      [] column = "gender" -> GenderValues
      [] column = "pronouns" -> PronounsValues

(***************************************************************************)
(* Filename inference                                                      *)
(***************************************************************************)
\* normalizeFilenameForSearch: the lowercased name with every run of
\* characters outside [a-z0-9] turned into one underscore, and its tokens
TokensOf(underscored) ==
    [underscored |-> underscored,
     tokens |-> SeqToSet(Split(underscored, "_")) \ {""}]

NormalizeFilenameForSearch(name) ==
    TokensOf(ReplaceRuns(ReplaceRuns(ToLowerCase(name),
                                     LowerLetters \cup Digits, FALSE, "_"),
                         {"_"}, TRUE, "_"))

\* new RegExp(`(^|_)${t}(_|$)`).test(underscored)
HasBounded(underscored, t) ==
    \E i \in 1..(Len(underscored) - Len(t) + 1) :
        /\ (i = 1 \/ Ch(underscored, i - 1) = "_")
        /\ (i + Len(t) - 1 = Len(underscored)
              \/ Ch(underscored, i + Len(t)) = "_")
        /\ SubSeq(underscored, i, i + Len(t) - 1) = t

FemaleHints ==
    << "female", "females", "women", "womens", "woman", "womxn", "girls",
       "girl", "ladies", "lady" >>

MaleHints ==
    << "male", "males", "men", "mens", "man", "boys", "boy", "guys",
       "gentlemen", "gentleman", "gents" >>

\* inferGenderFromFilename on the normalized name n
GenderOf(n) ==
    LET hasToken(t) == t \in n.tokens
        hasBounded(t) == HasBounded(n.underscored, t)
    IN  IF hasToken("transman") \/ hasBounded("trans_man") THEN "transman"
        ELSE IF hasToken("transwoman") \/ hasBounded("trans_woman")
        THEN "transwoman"
        ELSE IF hasToken("transgender") \/ hasBounded("trans")
        THEN "transgender"
        ELSE IF \/ hasToken("nonbinary") \/ hasBounded("non_binary")
                \/ hasToken("nb") \/ hasBounded("x_division")
                \/ hasToken("enby")
        THEN "non-binary"
        ELSE IF \E i \in 1..Len(FemaleHints) :
                    hasToken(FemaleHints[i]) \/ hasBounded(FemaleHints[i])
        THEN "female"
        ELSE IF \E i \in 1..Len(MaleHints) :
                    hasToken(MaleHints[i]) \/ hasBounded(MaleHints[i])
        THEN "male"
        ELSE Null

\* a faulty variant: the hints of male are looked for before any other
InferGenderFromFilenameMutMaleFirst(fileName) ==
    LET n == NormalizeFilenameForSearch(fileName)
    IN  IF \E i \in 1..Len(MaleHints) :
               MaleHints[i] \in n.tokens \/ HasBounded(n.underscored, MaleHints[i])
        THEN "male"
        ELSE GenderOf(n)

InferGenderFromFilename(fileName) ==
    GenderOf(NormalizeFilenameForSearch(fileName))

\* expandVariants of inferModelBoardFromFilename
ExpandVariants(t) ==
    LET u == ReplaceAll(t, "-", "_")
    IN  {u}
          \cup (IF ~EndsWith(u, "s") THEN {u \o "s"} ELSE {})
          \cup (IF EndsWith(u, "y")
                THEN {SubSeq(u, 1, Len(u) - 1) \o "ies"} ELSE {})
          \cup (IF \/ EndsWith(u, "s") \/ EndsWith(u, "x")
                   \/ EndsWith(u, "ch") \/ EndsWith(u, "sh")
                THEN {u \o "es"} ELSE {})
          \cup {ReplaceAll(u, "_", "")}

\* the candidates of inferModelBoardFromFilename, in the order they are tried
BoardCandidates ==
    << [value |-> "image", tokens |-> {"image"}],
       [value |-> "mainboard", tokens |-> {"mainboard", "main_board"}],
       [value |-> "a_new_face",
        tokens |-> {"a_new_face", "new_face", "new_faces", "newface",
                    "newfaces"}],
       [value |-> "development", tokens |-> {"development"}],
       [value |-> "non_binary_aka_x_division",
        tokens |-> {"non_binary_aka_x_division", "x_division", "non_binary",
                    "non-binary", "nonbinary", "nb"}],
       [value |-> "direct", tokens |-> {"direct"}],
       [value |-> "youth", tokens |-> {"youth"}],
       [value |-> "classic", tokens |-> {"classic"}],
       [value |-> "timeless", tokens |-> {"timeless"}],
       [value |-> "curve", tokens |-> {"curve"}],
       [value |-> "teen", tokens |-> {"teen"}],
       [value |-> "commercial", tokens |-> {"commercial"}],
       [value |-> "preview", tokens |-> {"preview"}],
       [value |-> "verve", tokens |-> {"verve"}],
       [value |-> "big_and_tall",
        tokens |-> {"big_and_tall", "bigandtall", "big_tall", "big-tall"}],
       [value |-> "a_family", tokens |-> {"a_family", "family"}],
       [value |-> "couples", tokens |-> {"couples"}],
       [value |-> "petite", tokens |-> {"petite"}],
       [value |-> "lifestyle", tokens |-> {"lifestyle"}],
       [value |-> "fit", tokens |-> {"fit"}],
       [value |-> "runway", tokens |-> {"runway"}],
       [value |-> "streetcast", tokens |-> {"streetcast"}],
       [value |-> "elite", tokens |-> {"elite"}],
       [value |-> "premier", tokens |-> {"premier"}] >>

\* c.tokens.flatMap(expandVariants) of every candidate, as the set of the
\* triples <<index of the candidate, variant t, t.replace(/_/g, '')>>
BoardVariants ==
    UNION { { <<i, t, ReplaceAll(t, "_", "")>> :
                t \in UNION { ExpandVariants(tok) :
                                  tok \in BoardCandidates[i].tokens } } :
            i \in 1..Len(BoardCandidates) }

\* bounded(t) || has(t) || bounded(t.replace(/_/g, '')) for one of the
\* variants of candidate i
BoardMatches(n, i) ==
    \E p \in BoardVariants :
        /\ p[1] = i
        /\ \/ HasBounded(n.underscored, p[2])
           \/ p[2] \in n.tokens
           \/ HasBounded(n.underscored, p[3])

\* the loop over the candidates, from candidate i on
RECURSIVE FirstBoard(_, _)
FirstBoard(n, i) ==
    IF i > Len(BoardCandidates) THEN Null
    ELSE IF BoardMatches(n, i) THEN BoardCandidates[i].value
    ELSE FirstBoard(n, i + 1)

\* inferModelBoardFromFilename on the normalized name n
BoardOf(n) ==
    LET hasAll(ts) == ts \subseteq n.tokens
    IN  IF hasAll({"new", "face"}) \/ hasAll({"new", "faces"})
        THEN "a_new_face"
        ELSE IF hasAll({"main", "board"}) THEN "mainboard"
        ELSE IF hasAll({"big", "and", "tall"}) THEN "big_and_tall"
        ELSE IF hasAll({"x", "division"}) THEN "non_binary_aka_x_division"
        ELSE IF hasAll({"non", "binary"}) THEN "non_binary_aka_x_division"
        ELSE IF "main" \in n.tokens \/ HasBounded(n.underscored, "main")
        THEN "mainboard"
        ELSE FirstBoard(n, 1)

InferModelBoardFromFilename(fileName) ==
    BoardOf(NormalizeFilenameForSearch(fileName))

(***************************************************************************)
(* Transform library (SAFE_TRANSFORMS, applyTransform)                     *)
(***************************************************************************)
\* a || b of JavaScript over strings: a unless it is null, undefined or ''
OrElse(a, b) == IF IsNullish(a) \/ a = "" THEN b ELSE a

\* a ?? b of JavaScript: a unless it is null or undefined
Coalesce(a, b) == IF IsNullish(a) THEN b ELSE a

\* normalize of enumSanitize
EnumNormalize(s) ==
    RemoveChars(ReplaceRuns(Trim(ToLowerCase(s)), WhiteSpace, TRUE, "_"),
                LowerLetters \cup Digits \cup {"_"}, FALSE)

StripUnderscore(s) == ReplaceAll(s, "_", "")

\* the two entries for one respelling of the normalized choice c
EnumSpelling(c, from, to) ==
    IF Includes(c, from)
    THEN << [variant |-> ReplaceAll(c, from, to), canonical |-> c],
            [variant |-> StripUnderscore(ReplaceAll(c, from, to)),
             canonical |-> c] >>
    ELSE << >>

\* the entries enumSanitize puts into variantToCanonical for one choice, in
\* the order of its set() calls
EnumEntriesOf(c) ==
    << [variant |-> c, canonical |-> c],
       [variant |-> StripUnderscore(c), canonical |-> c] >>
      \o EnumSpelling(c, "blonde", "blond") \o EnumSpelling(c, "blond", "blonde")
      \o EnumSpelling(c, "gray", "grey") \o EnumSpelling(c, "grey", "gray")

EnumVariantsOf(choice) == EnumEntriesOf(EnumNormalize(choice))

RECURSIVE EnumVariantRange(_, _, _)
EnumVariantRange(choices, lo, hi) ==
    IF lo > hi THEN << >>
    ELSE IF lo = hi THEN EnumVariantsOf(choices[lo])
         ELSE EnumVariantRange(choices, lo, (lo + hi) \div 2)
                \o EnumVariantRange(choices, ((lo + hi) \div 2) + 1, hi)

\* variantToCanonical of enumSanitize, as the sequence of its set() calls
EnumVariantIndex(choices) == EnumVariantRange(choices, 1, Len(choices))

\* Map.prototype.get on a map filled in the order of entries: the value of
\* the last entry set for the key
MapGet(entries, key) ==
    IF \E i \in 1..Len(entries) : entries[i].variant = key
    THEN entries[CHOOSE i \in 1..Len(entries) :
                    /\ entries[i].variant = key
                    /\ \A j \in (i + 1)..Len(entries) :
                           entries[j].variant # key].canonical
    ELSE Undefined

\* choicesCsv.split(',').map((s) => s.trim())
TrimEach(parts) ==
    [i \in 1..Len(parts) |-> Trim(parts[i])]

\* SAFE_TRANSFORMS.enumSanitize(choicesCsv)(v)
\* variantToCanonical.get(normalizedInput)
\*   || variantToCanonical.get(normalizedInput.replace(/_/g, '')) || null
EnumResolve(index, normalizedInput) ==
    OrElse(OrElse(MapGet(index, normalizedInput),
                  MapGet(index, StripUnderscore(normalizedInput))),
           Null)

EnumSanitize(choicesCsv, v) ==
    IF IsNullish(v) THEN Null
    ELSE EnumResolve(EnumVariantIndex(TrimEach(Split(choicesCsv, ","))),
                     EnumNormalize(v))

\* SAFE_TRANSFORMS.normalizeGender
GenderOfTag(s) ==
    CASE s \in {"male", "m", "man"} -> "male"
      [] s \in {"female", "f", "woman"} -> "female"
      [] s \in {"transgender", "trans"} -> "transgender"
      [] s \in {"non-binary", "nonbinary", "nb"} -> "non-binary"
      [] s = "transman" -> "transman"
      [] s = "transwoman" -> "transwoman"
      [] OTHER -> Null

NormalizeGender(v) == GenderOfTag(Trim(ToLowerCase(OrElse(v, ""))))

(***************************************************************************)
(* Numbers and the patterns of the numeric transforms                      *)
(*                                                                         *)
(* A JavaScript number is the integer of its ten-thousandths, which is     *)
(* exact for the decimals the inputs of the model hold.  A number stored   *)
(* in a record is the text JsNumber gives it, so that the number 7 and the *)
(* string "7" are two values.                                              *)
(***************************************************************************)
Units(n) == n * 10000

DigitValue(c) == (CHOOSE i \in 1..10 : Ch(DigitAlphabet, i) = c) - 1

RECURSIVE DigitsValue(_)
DigitsValue(s) ==
    IF Len(s) = 0 THEN 0
    ELSE DigitsValue(SubSeq(s, 1, Len(s) - 1)) * 10 + DigitValue(Ch(s, Len(s)))

\* the ten-thousandths of 0.f
FractionValue(f) == DigitsValue(SubSeq(f \o "0000", 1, 4))

NotANumber == [finite |-> FALSE, k |-> 0]
Finite(k) == [finite |-> TRUE, k |-> k]

\* the positions of the dots of body
DotsOf(body) == { i \in 1..Len(body) : Ch(body, i) = "." }

\* the value of the digits of body around the dot at position dot
UnsignedValue(body, dot) ==
    Units(DigitsValue(SubSeq(body, 1, dot - 1)))
      + FractionValue(SubSeq(body, dot + 1, Len(body)))

\* the number of a text without its sign: NaN with two dots, with another
\* character than a digit or a dot, or without a digit
SignedValue(neg, body, dots) ==
    IF \/ Cardinality(dots) > 1
       \/ \E i \in 1..Len(body) : Ch(body, i) \notin Digits \cup {"."}
       \/ \A i \in 1..Len(body) : Ch(body, i) \notin Digits
    THEN NotANumber
    ELSE Finite((IF neg THEN 0 - 1 ELSE 1)
                  * UnsignedValue(body, SetMin(dots \cup {Len(body) + 1})))

\* Number(text) for a text of digits, dots and minus signs: the empty text
\* is 0; a text with two dots, a minus sign after its start or no digit is
\* NaN
NumberOf(text) ==
    IF text = "" THEN Finite(0)
    ELSE IF Ch(text, 1) = "-"
    THEN SignedValue(TRUE, SubSeq(text, 2, Len(text)),
                     DotsOf(SubSeq(text, 2, Len(text))))
    ELSE SignedValue(FALSE, text, DotsOf(text))

\* the decimals of frac ten-thousandths, without the zeros at their end
DecimalsOf(frac) ==
    IF frac % 10 # 0 THEN ToString(frac \div 1000) \o ToString((frac \div 100) % 10)
                          \o ToString((frac \div 10) % 10) \o ToString(frac % 10)
    ELSE IF frac % 100 # 0
    THEN ToString(frac \div 1000) \o ToString((frac \div 100) % 10)
           \o ToString((frac \div 10) % 10)
    ELSE IF frac % 1000 # 0
    THEN ToString(frac \div 1000) \o ToString((frac \div 100) % 10)
    ELSE ToString(frac \div 1000)

\* String(n) of a number that is not negative
UnsignedText(a) ==
    ToString(a \div 10000)
      \o (IF a % 10000 = 0 THEN "" ELSE "." \o DecimalsOf(a % 10000))

\* String(n) of a number
NumberText(k) == IF k < 0 THEN "-" \o UnsignedText(0 - k) ELSE UnsignedText(k)

\* the number k as a value of a record
JsNumber(k) == "#" \o NumberText(k)

\* Math.round
Round(k) == Units((k + 5000) \div 10000)

\* p stands in t from position i on
At(t, i, p) == i + Len(p) - 1 <= Len(t) /\ SubSeq(t, i, i + Len(p) - 1) = p

\* the end of the longest run of characters of cls from position i on,
\* i - 1 when there is none
RunEnd(s, i, cls) ==
    IF i > Len(s) THEN i - 1
    ELSE SetMin({ j \in i..Len(s) : Ch(s, j) \notin cls } \cup {Len(s) + 1}) - 1

\* the end of (?:\.\d+)? after position e
FractionEnd(s, e) ==
    IF At(s, e + 1, ".") /\ RunEnd(s, e + 2, Digits) >= e + 2
    THEN RunEnd(s, e + 2, Digits) ELSE e

\* the end of \d*(?:\.\d+)? at position i, i - 1 when it matches nothing
OptNumEnd(s, i) == FractionEnd(s, RunEnd(s, i, Digits))

\* the end of \d+(?:\.\d+)? at position i, i - 1 when it does not match
NumEnd(s, i) == IF RunEnd(s, i, Digits) < i THEN i - 1 ELSE OptNumEnd(s, i)

\* the atoms of a pattern: (\d+(?:\.\d+)?), (\d*(?:\.\d+)?)?, \s* and an
\* alternation of literals (?:a|b)
Num == [t |-> "num", alts |-> << >>]
OptNum == [t |-> "optnum", alts |-> << >>]
Ws == [t |-> "ws", alts |-> << >>]
Alt(alts) == [t |-> "alt", alts |-> alts]

NoMatch == [ok |-> FALSE, end |-> 0, caps |-> << >>]

Captured(cap, m) == IF m.ok THEN [m EXCEPT !.caps = <<cap>> \o @] ELSE NoMatch

\* the match of the pattern that starts at position i: the numbers and the
\* white space are taken as far as they go (what follows them in a pattern
\* never starts with a character they take), the alternatives of a
\* literal are tried in order
RECURSIVE MatchAt(_, _, _)
RECURSIVE MatchAlt(_, _, _, _)
MatchAlt(s, i, alts, rest) ==
    IF Len(alts) = 0 THEN NoMatch
    ELSE IF At(s, i, Head(alts)) /\ MatchAt(s, i + Len(Head(alts)), rest).ok
    THEN MatchAt(s, i + Len(Head(alts)), rest)
    ELSE MatchAlt(s, i, Tail(alts), rest)

MatchAt(s, i, pat) ==
    IF Len(pat) = 0 THEN [ok |-> TRUE, end |-> i - 1, caps |-> << >>]
    ELSE CASE Head(pat).t = "num" ->
                  IF NumEnd(s, i) < i THEN NoMatch
                  ELSE Captured(SubSeq(s, i, NumEnd(s, i)),
                                MatchAt(s, NumEnd(s, i) + 1, Tail(pat)))
           [] Head(pat).t = "optnum" ->
                  Captured(SubSeq(s, i, OptNumEnd(s, i)),
                           MatchAt(s, OptNumEnd(s, i) + 1, Tail(pat)))
           [] Head(pat).t = "ws" ->
                  MatchAt(s, RunEnd(s, i, WhiteSpace) + 1, Tail(pat))
           [] Head(pat).t = "alt" ->
                  MatchAlt(s, i, Head(pat).alts, Tail(pat))

\* the positions from `from` on at which the pattern matches
StartsOf(s, pat, from) == { i \in from..Len(s) : MatchAt(s, i, pat).ok }

\* the match at the first of starts
MatchAtFirst(s, pat, starts) ==
    IF starts = {} THEN NoMatch ELSE MatchAt(s, SetMin(starts), pat)

\* s.match(pattern): the leftmost match from position from on
MatchFrom(s, pat, from) == MatchAtFirst(s, pat, StartsOf(s, pat, from))

FirstMatch(s, pat) == MatchFrom(s, pat, 1)

\* the numbers captured by the successive matches of a /g pattern
RECURSIVE CapturedFrom(_, _, _)
RECURSIVE CapturedAfter(_, _, _)
CapturedAfter(s, pat, m) ==
    IF ~m.ok THEN {}
    ELSE { NumberOf(m.caps[j]).k : j \in 1..Len(m.caps) }
           \cup CapturedFrom(s, pat, m.end + 1)

CapturedFrom(s, pat, from) == CapturedAfter(s, pat, MatchFrom(s, pat, from))

CapturedBy(s, pat) == CapturedFrom(s, pat, 1)

\* a finite number, or null
FiniteOrNull(num) == IF num.finite THEN JsNumber(num.k) ELSE Null

\* SAFE_TRANSFORMS.parseNumber
ParseNumber(v) ==
    IF IsNullish(v) \/ v = "" THEN Null
    ELSE FiniteOrNull(NumberOf(RemoveChars(v, Digits \cup {".", "-"}, FALSE)))

\* normalizeFractions of toCentimeters, over the characters the model
\* uses: two single ticks become one double tick
NormalizeTicks(s) == ReplaceAll(s, "''", "\"")

\* inches * 2.54, for a number that is not negative
InchesToCm(k) == (k \div 100) * 254 + ((k % 100) * 254) \div 100

\* the patterns of toCentimeters: centimetres, feet and inches, inches
HeightPatterns ==
    << <<Num, Ws, Alt(<<"cm">>)>>,
       <<Num, Ws, Alt(<<"ft", "'">>), Ws, OptNum>>,
       <<Num, Ws, Alt(<<"in", "\"">>)>> >>

\* Number(m[j]) of a match, 0 for a group that took nothing
GroupNumber(m, j) == IF m.caps[j] = "" THEN 0 ELSE NumberOf(m.caps[j]).k

\* the centimetres of the first of the three matches m that succeeded, or
\* of the plain number
CentimetersOf(m, plain) ==
    IF m[1].ok THEN JsNumber(Round(GroupNumber(m[1], 1)))
    ELSE IF m[2].ok
    THEN JsNumber(Round(InchesToCm(GroupNumber(m[2], 1) * 12
                                     + GroupNumber(m[2], 2))))
    ELSE IF m[3].ok THEN JsNumber(Round(InchesToCm(GroupNumber(m[3], 1))))
    ELSE IF plain.finite THEN JsNumber(Round(plain.k))
    ELSE Null

\* toCentimeters of the normalized text
CentimetersIn(s) ==
    CentimetersOf([n \in 1..3 |-> FirstMatch(s, HeightPatterns[n])],
                  NumberOf(RemoveChars(s, Digits \cup {".", "-"}, FALSE)))

\* SAFE_TRANSFORMS.toCentimeters
ToCentimeters(v) ==
    IF IsNullish(v) \/ v = "" THEN Null
    ELSE CentimetersIn(NormalizeTicks(Trim(ToLowerCase(v))))

\* the bounds of a set of numbers, or no bounds
NoBounds == [present |-> FALSE, min |-> 0, max |-> 0]
BoundsOf(nums) ==
    IF nums = {} THEN NoBounds
    ELSE [present |-> TRUE, min |-> SetMin(nums), max |-> SetMax(nums)]

\* the bounds of the numbers of raw from the first "uk" on
UkBoundsFrom(raw, ukAt) ==
    IF raw = "" \/ ukAt = {} THEN NoBounds
    ELSE BoundsOf(CapturedBy(SubSeq(raw, SetMin(ukAt), Len(raw)), <<Num>>))

UkBoundsIn(raw) == UkBoundsFrom(raw, { i \in 1..Len(raw) : At(raw, i, "uk") })

\* parseUkShoeBounds
ParseUkShoeBounds(input) ==
    IF IsNullish(input) THEN NoBounds ELSE UkBoundsIn(Trim(ToLowerCase(input)))

\* re1..re4 of collectUnitValues: a range after the unit, a range before
\* it, a number after the unit, a number before it
UnitPatterns(units) ==
    { <<Alt(units), Ws, Num, Ws, Alt(<<"-", "/">>), Ws, Num>>,
      <<Num, Ws, Alt(<<"-", "/">>), Ws, Num, Ws, Alt(units)>>,
      <<Alt(units), Ws, Num>>,
      <<Num, Ws, Alt(units)>> }

\* collectUnitValues of parseShoeToUkBounds
CollectUnitValues(raw, units) ==
    UNION { CapturedBy(raw, pat) : pat \in UnitPatterns(units) }

\* toUk of parseShoeToUkBounds, g being the gender in lower case
ToUkOf(k, unit, g) ==
    CASE unit = "eu" ->
             IF g \in {"female", "woman"} THEN k - Units(33)
             ELSE IF g \in {"male", "man"} THEN k - Units(34)
             ELSE k - 335000
      [] unit = "us" ->
             IF g \in {"female", "woman"} THEN k - Units(2)
             ELSE IF g \in {"male", "man"} THEN k - Units(1)
             ELSE k - 15000
      [] OTHER -> k

ToUk(k, unit, gender) == ToUkOf(k, unit, ToLowerCase(gender))

\* the spellings of a unit: (?:uk), (?:eu|eur) and (?:us|usa)
UnitSpellings ==
    [uk |-> <<"uk">>, eu |-> <<"eu", "eur">>, us |-> <<"us", "usa">>]

\* the numbers to convert and their unit: those given with uk, else with
\* eu, else with us, else the bare numbers in the hinted unit
UnitValues(raw, vals, unitHint) ==
    IF vals.uk # {} THEN [unit |-> "uk", nums |-> vals.uk]
    ELSE IF vals.eu # {} THEN [unit |-> "eu", nums |-> vals.eu]
    ELSE IF vals.us # {} THEN [unit |-> "us", nums |-> vals.us]
    ELSE [unit |-> IF unitHint \in {"eu", "us"} THEN unitHint ELSE "uk",
          nums |-> CapturedBy(raw, <<Num>>)]

\* convertedUk and its bounds
ConvertedBounds(found, gender) ==
    BoundsOf({ ToUk(k, found.unit, gender) : k \in found.nums })

\* parseShoeToUkBounds of the normalized text
ShoeBoundsIn(raw, gender, unitHint) ==
    IF raw = "" THEN NoBounds
    ELSE ConvertedBounds(
             UnitValues(raw,
                        [unit \in DOMAIN UnitSpellings |->
                            CollectUnitValues(raw, UnitSpellings[unit])],
                        unitHint),
             gender)

\* parseShoeToUkBounds
ParseShoeToUkBounds(value, gender, unitHint) ==
    IF IsNullish(value) THEN NoBounds
    ELSE ShoeBoundsIn(Trim(ToLowerCase(value)), gender, unitHint)

\* r ? r.min : null and r ? r.max : null
MinOf(bounds) == IF bounds.present THEN JsNumber(bounds.min) ELSE Null
MaxOf(bounds) == IF bounds.present THEN JsNumber(bounds.max) ELSE Null

BoundOf(bounds, lower) == IF lower THEN MinOf(bounds) ELSE MaxOf(bounds)

\* parts[n] || '' of the parts of transform.split(':')
PartAt(parts, n) == IF Len(parts) >= n THEN parts[n] ELSE ""

PartOf(transform, n) == PartAt(Split(transform, ":"), n)

\* The transform of SAFE_TRANSFORMS this model does not evaluate: it returns
\* a function, and no input of the model requests it
UnmodelledTransforms == {"enumSanitize"}

\* applyTransform.  A transform outside SAFE_TRANSFORMS leaves the value as
\* it is; trim, lowercase and uppercase leave a non-string as it is.
ApplyTransform(value, transform) ==
    CASE IsNullish(transform) \/ transform = "" -> value
      [] StartsWith(transform, "enum:") ->
             EnumSanitize(SubSeq(transform, 6, Len(transform)), value)
      [] transform = "trim" ->
             IF IsNullish(value) THEN value ELSE Trim(value)
      [] transform = "lowercase" ->
             IF IsNullish(value) THEN value ELSE ToLowerCase(Trim(value))
      [] transform = "uppercase" ->
             IF IsNullish(value) THEN value ELSE ToUpperCase(Trim(value))
      [] transform = "normalizeGender" -> NormalizeGender(value)
      [] StartsWith(transform, "toUkShoeMin")
           \/ StartsWith(transform, "toUkShoeMax") ->
             BoundOf(ParseShoeToUkBounds(value, PartOf(transform, 2),
                                         PartOf(transform, 3)),
                     StartsWith(transform, "toUkShoeMin"))
      [] transform = "parseNumber" -> ParseNumber(value)
      [] transform = "toCentimeters" -> ToCentimeters(value)
      [] transform \in {"parseUkShoeMin", "parseUkShoeMax"} ->
             BoundOf(ParseUkShoeBounds(value), transform = "parseUkShoeMin")
      [] /\ ~IsNullish(transform) /\ transform # ""
         /\ ~StartsWith(transform, "enum:")
         /\ ~StartsWith(transform, "toUkShoeMin")
         /\ ~StartsWith(transform, "toUkShoeMax")
         /\ transform \notin {"trim", "lowercase", "uppercase",
                              "normalizeGender", "parseNumber",
                              "toCentimeters", "parseUkShoeMin",
                              "parseUkShoeMax"}
         /\ transform \notin UnmodelledTransforms -> value

(***************************************************************************)
(* Row mapper (getSourceValueWithKey, applyMappingToRow)                   *)
(*                                                                         *)
(* A row is the sequence of its [k, v] cells in header order.  A `from` is *)
(* [arr, v]: the candidates v of an array, the one candidate of a string,  *)
(* or no candidate when the key is absent.  fieldMappings is the sequence  *)
(* of its [key, spec] entries in insertion order.                          *)
(***************************************************************************)
NoFrom == [arr |-> FALSE, v |-> << >>]
FromStr(s) == [arr |-> FALSE, v |-> <<s>>]
FromArr(q) == [arr |-> TRUE, v |-> q]

\* normalizeKey
NormalizeKey(key) ==
    ReplaceRuns(ReplaceRuns(Trim(ToLowerCase(key)), WhiteSpace, TRUE, "_"),
                {"-"}, TRUE, "_")

RowHas(row, key) == \E i \in 1..Len(row) : row[i].k = key

RowGet(row, key) ==
    IF RowHas(row, key)
    THEN row[CHOOSE i \in 1..Len(row) : row[i].k = key].v
    ELSE Undefined

\* normalizedMap.get(norm): the last header whose normalized form is norm
NormalizedKeyOf(row, norm) ==
    IF \E i \in 1..Len(row) : NormalizeKey(row[i].k) = norm
    THEN row[CHOOSE i \in 1..Len(row) :
                /\ NormalizeKey(row[i].k) = norm
                /\ \A j \in (i + 1)..Len(row) :
                       NormalizeKey(row[j].k) # norm].k
    ELSE Undefined

\* v !== undefined && v !== null && String(v).trim() !== ''
NonEmptyValue(v) == ~IsNullish(v) /\ Trim(v) # ""

\* one candidate of getSourceValueWithKey: the exact key cand, then the
\* header actual whose normalized form is that of cand
SourceAt(row, cand, actual) ==
    IF RowHas(row, cand) /\ NonEmptyValue(RowGet(row, cand))
    THEN [value |-> RowGet(row, cand), keyUsed |-> cand]
    ELSE IF /\ ~IsNullish(actual) /\ actual # ""
            /\ NonEmptyValue(RowGet(row, actual))
    THEN [value |-> RowGet(row, actual), keyUsed |-> actual]
    ELSE [value |-> Undefined, keyUsed |-> Null]

FirstFound(found, rest) == IF IsNullish(found.keyUsed) THEN rest ELSE found

\* a faulty variant: the last candidate that yields a value wins
SourceLookupMutLast(row, candidates) ==
    LET found == { i \in 1..Len(candidates) :
                      ~IsNullish(SourceAt(row, candidates[i],
                          NormalizedKeyOf(row, NormalizeKey(candidates[i]))).keyUsed) }
    IN  IF found = {} THEN [value |-> Undefined, keyUsed |-> Null]
        ELSE SourceAt(row, candidates[SetMax(found)],
                 NormalizedKeyOf(row, NormalizeKey(candidates[SetMax(found)])))

RECURSIVE SourceLookup(_, _)
SourceLookup(row, candidates) ==
    IF Len(candidates) = 0 THEN [value |-> Undefined, keyUsed |-> Null]
    ELSE FirstFound(SourceAt(row, Head(candidates),
                             NormalizedKeyOf(row, NormalizeKey(Head(candidates)))),
                    SourceLookup(row, Tail(candidates)))

\* getSourceValueWithKey
GetSourceValueWithKey(row, fromSpec) ==
    IF ~fromSpec.arr /\ (fromSpec.v = << >> \/ fromSpec.v = <<"">>)
    THEN [value |-> Undefined, keyUsed |-> Null]
    ELSE SourceLookup(row, fromSpec.v)

\* getSourceValue
GetSourceValue(row, fromSpec) == GetSourceValueWithKey(row, fromSpec).value

CM_COLUMNS == {"height", "chest_bust", "waist", "hips"}

\* SHOE_TRANSFORM_BY_COLUMN
ShoeTransformByColumn(column) ==
    IF column = "shoe_size" THEN "toUkShoeMin" ELSE Undefined

WordChars == LowerLetters \cup CharsOf(UpperAlphabet) \cup Digits \cup {"_"}

\* /\bw\b/.test(k)
HasWord(k, w) ==
    \E i \in 1..Len(k) :
        /\ i + Len(w) - 1 <= Len(k)
        /\ SubSeq(k, i, i + Len(w) - 1) = w
        /\ (i = 1 \/ Ch(k, i - 1) \notin WordChars)
        /\ (i + Len(w) - 1 = Len(k) \/ Ch(k, i + Len(w)) \notin WordChars)

\* the unit hint applyMappingToRow reads off the source column's name
UnitHintOfKey(k) ==
    IF HasWord(k, "eu") \/ HasWord(k, "eur") \/ Includes(k, "european")
    THEN "eu"
    ELSE IF HasWord(k, "us") \/ HasWord(k, "usa") \/ Includes(k, "american")
    THEN "us"
    ELSE IF \/ HasWord(k, "uk") \/ Includes(k, "british")
            \/ HasWord(k, "uk_size") \/ HasWord(k, "uk_sizes")
    THEN "uk"
    ELSE ""

UnitHintOf(sourceKey) ==
    IF IsNullish(sourceKey) \/ sourceKey = "" THEN ""
    ELSE UnitHintOfKey(NormalizeKey(sourceKey))

\* the transform applyMappingToRow applies to one field
\* `${shoeBase}:${genderParam}:${unitHint}`, or shoeBase without both
ShoeTransform(shoeBase, genderParam, unitHint) ==
    IF genderParam # "" \/ unitHint # ""
    THEN shoeBase \o ":" \o genderParam \o ":" \o unitHint
    ELSE shoeBase

TransformToApply(table, column, transformRequested, sourceKey, opts) ==
    IF /\ column \notin CM_COLUMNS /\ table = "models"
       /\ column \in EnumColumns
       /\ (\/ IsNullish(transformRequested) \/ transformRequested = ""
           \/ ~StartsWith(transformRequested, "enum:"))
    THEN "enum:" \o Join(EnumValuesOf(column), ",")
    ELSE IF /\ table = "models" /\ ~IsNullish(ShoeTransformByColumn(column))
            /\ (\/ IsNullish(transformRequested) \/ transformRequested = ""
                \/ transformRequested = "parseNumber")
    THEN ShoeTransform(ShoeTransformByColumn(column),
                       ToLowerCase(OrElse(opts.gender, "")),
                       UnitHintOf(sourceKey))
    ELSE IF column \in CM_COLUMNS THEN "toCentimeters"
    ELSE transformRequested

\* models[column] = value
SetField(rec, column, value) ==
    [c \in (DOMAIN rec) \cup {column} |->
        IF c = column THEN value ELSE rec[c]]

HasField(rec, column) == column \in DOMAIN rec

FieldOf(rec, column) == IF HasField(rec, column) THEN rec[column] ELSE Undefined

NoFields == [c \in {} |-> Null]

\* the delimiters of toTitleCaseName: [\s\-\']
NameDelimiters == WhiteSpace \cup {"-", "'"}

RECURSIVE TitleRange(_, _, _)
TitleRange(s, lo, hi) ==
    IF lo > hi THEN ""
    ELSE IF lo = hi
         THEN IF lo = 1 \/ Ch(s, lo - 1) \in NameDelimiters
              THEN UpperChar(Ch(s, lo)) ELSE Ch(s, lo)
         ELSE TitleRange(s, lo, (lo + hi) \div 2)
                \o TitleRange(s, ((lo + hi) \div 2) + 1, hi)

\* toTitleCaseName
TitleOfTrimmed(s) ==
    IF s = "" THEN Null
    ELSE Trim(ReplaceRuns(TitleRange(ToLowerCase(s), 1, Len(s)),
                          WhiteSpace, TRUE, " "))

ToTitleCaseName(input) ==
    IF IsNullish(input) THEN Null ELSE TitleOfTrimmed(Trim(input))

\* one iteration of the loop over mapping.fieldMappings
\* models[column] = applyTransform(sourceVal, transformToApply)
\*                     ?? spec.default ?? null
StoreField(rec, table, column, src, entry, opts) ==
    IF column = "data_source" THEN rec
    ELSE IF table = "models"
    THEN SetField(rec, column,
             Coalesce(Coalesce(
                 ApplyTransform(src.value,
                     TransformToApply(table, column, entry.spec.transform,
                                      src.keyUsed, opts)),
                 entry.spec.default), Null))
    ELSE rec

\* const [table, column] = key.split('.')
MapField(rec, parts, entry, row, opts) ==
    StoreField(rec, parts[1],
               IF Len(parts) >= 2 THEN parts[2] ELSE "undefined",
               GetSourceValueWithKey(row, entry.spec.from), entry, opts)

ApplyFieldMapping(rec, entry, row, opts) ==
    MapField(rec, Split(entry.key, "."), entry, row, opts)

RECURSIVE ApplyFieldMappings(_, _, _, _)
ApplyFieldMappings(rec, entries, row, opts) ==
    IF Len(entries) = 0 THEN rec
    ELSE ApplyFieldMappings(ApplyFieldMapping(rec, Head(entries), row, opts),
                            Tail(entries), row, opts)

\* Array.from(new Set(q)): the first occurrence of each element, in order
RECURSIVE Dedupe(_)
Dedupe(q) ==
    IF Len(q) = 0 THEN << >>
    ELSE LET front == Dedupe(SubSeq(q, 1, Len(q) - 1))
         IN  IF q[Len(q)] \in SeqToSet(front) THEN front
             ELSE Append(front, q[Len(q)])

RECURSIVE KeepUrls(_)
KeepUrls(parts) ==
    IF Len(parts) = 0 THEN << >>
    ELSE IF \/ StartsWith(ToLowerCase(Head(parts)), "http://")
            \/ StartsWith(ToLowerCase(Head(parts)), "https://")
         THEN <<Head(parts)>> \o KeepUrls(Tail(parts))
         ELSE KeepUrls(Tail(parts))

\* extractUrls
ExtractUrls(input) ==
    IF IsNullish(input) THEN << >>
    ELSE Dedupe(KeepUrls(Split(
             ReplaceRuns(input, WhiteSpace \cup {",", ";"}, TRUE, " "), " ")))

RECURSIVE LinksOf(_, _)
LinksOf(row, candidates) ==
    IF Len(candidates) = 0 THEN << >>
    ELSE ExtractUrls(GetSourceValue(row, FromStr(Head(candidates))))
           \o LinksOf(row, Tail(candidates))

\* the media rows applyMappingToRow builds from mediaMappings
MediaRowsOf(row, mediaMappings) ==
    IF \E i \in 1..Len(mediaMappings) :
           mediaMappings[i].key = "models_media.link"
    THEN LET linkSpec ==
                 mediaMappings[CHOOSE i \in 1..Len(mediaMappings) :
                                   mediaMappings[i].key = "models_media.link"].spec
             candidates ==
                 IF linkSpec.from.arr THEN linkSpec.from.v
                 ELSE FilterOut(linkSpec.from.v, {""})
             links == Dedupe(FilterOut(LinksOf(row, candidates), {""}))
         IN  [i \in 1..Len(links) |-> [link |-> links[i]]]
    ELSE << >>

\* the reserved fields applyMappingToRow forces after the mapping loop
ForceSystemFields(rec, opts) ==
    LET g == SetField(rec, "gender", OrElse(opts.gender, Null))
        b == IF ~IsNullish(opts.modelBoard) /\ opts.modelBoard # ""
             THEN SetField(g, "model_board_category", opts.modelBoard)
             ELSE g
    IN  SetField(b, "data_source", opts.dataSource)

\* applyMappingToRow
\* models.model_name = toTitleCaseName(models.model_name) when it is set
TitleCased(rec) ==
    IF ~IsNullish(FieldOf(rec, "model_name"))
    THEN SetField(rec, "model_name", ToTitleCaseName(rec["model_name"]))
    ELSE rec

ApplyMappingToRow(row, mapping, opts) ==
    [models |->
         TitleCased(ForceSystemFields(
             ApplyFieldMappings(NoFields, mapping.fieldMappings, row, opts),
             opts)),
     models_media |-> MediaRowsOf(row, mapping.mediaMappings)]

(***************************************************************************)
(* Inputs of the row mapper                                                *)
(***************************************************************************)
FieldSpec(from, transform, default) ==
    [from |-> from, transform |-> transform, default |-> default]

Entry(key, spec) == [key |-> key, spec |-> spec]

NameEntry == Entry("models.model_name", FieldSpec(FromStr("Name"), "trim", Undefined))

InstagramEntry ==
    Entry("models.instagram_account",
          FieldSpec(FromArr(<<"IG", "instagram">>), Undefined, Undefined))

\* entries by which a mapping targets the three system fields
SystemEntries ==
    { Entry("models.gender", FieldSpec(FromStr("Gender"), Undefined, Undefined)),
      Entry("models.gender",
            FieldSpec(FromStr("Gender"), "normalizeGender", "transgender")),
      Entry("models.gender", FieldSpec(NoFrom, "lowercase", "male")),
      Entry("models.model_board_category",
            FieldSpec(FromStr("Board"), Undefined, Undefined)),
      Entry("models.model_board_category",
            FieldSpec(FromStr("board"), "enum:curve,teen", "teen")),
      Entry("models.model_board_category", FieldSpec(NoFrom, Undefined, "elite")),
      Entry("models.data_source",
            FieldSpec(FromStr("Source"), Undefined, Undefined)),
      Entry("models.data_source", FieldSpec(NoFrom, "trim", "other.csv")),
      Entry("models_media.gender", FieldSpec(FromStr("Gender"), Undefined, Undefined)),
      Entry("gender", FieldSpec(FromStr("Gender"), Undefined, Undefined)) }

MappingOf(entries) ==
    [targetTables |-> <<"models">>, fieldMappings |-> entries,
     mediaMappings |-> << >>]

MapperMappings ==
    { MappingOf(<<NameEntry>>) }
      \cup { MappingOf(<<NameEntry, e>>) : e \in SystemEntries }
      \cup { MappingOf(<<e, InstagramEntry>>) : e \in SystemEntries }

Cell(k, v) == [k |-> k, v |-> v]

MapperRows ==
    { << Cell("Name", "jane doe"), Cell("Gender", "Male"), Cell("Board", "Curve"),
         Cell("Source", "evil.csv") >>,
      << Cell("Name", " "), Cell("IG", "@jane"), Cell("gender", "f"),
         Cell("BOARD", "new faces") >>,
      << Cell("Name", "ann-marie o'neil"), Cell("Instagram", ""),
         Cell("Gender", ""), Cell("Board", "") >> }

MapperOpts ==
    [gender : {"female", "male", "non-binary"},
     modelBoard : {Null, "teen", "a_new_face"},
     dataSource : {"women_teen.csv", "upload.csv"}]

NoResult == [models |-> NoFields, models_media |-> << >>]

(***************************************************************************)
(* SpecMapper: one call of applyMappingToRow on every input above          *)
(***************************************************************************)
MapperInit ==
    /\ mapIn \in [row : MapperRows, mapping : MapperMappings, opts : MapperOpts]
    /\ mapOut = [done |-> FALSE, result |-> NoResult]
    /\ env = [anthropicKey |-> TRUE, supabase |-> TRUE]
    /\ models = << >>
    /\ reqs = << >>
    /\ started = 0
    /\ OtherIdle

CallApplyMappingToRow ==
    /\ ~mapOut.done
    /\ mapOut' = [done |-> TRUE,
                  result |-> ApplyMappingToRow(mapIn.row, mapIn.mapping,
                                               mapIn.opts)]
    /\ UNCHANGED <<env, models, reqs, started, mapIn>>
    /\ UNCHANGED otherVars

MapperNext == CallApplyMappingToRow

SpecMapper == MapperInit /\ [][MapperNext]_vars

\* C1: the record applyMappingToRow returns has gender, model_board_category
\* and data_source equal to the context's values (a context without a board
\* category leaves the record without one), whatever the mapping targets.
C1_SystemFieldSupremacy ==
    mapOut.done =>
        LET rec == mapOut.result.models
        IN  /\ FieldOf(rec, "gender") = mapIn.opts.gender
            /\ FieldOf(rec, "data_source") = mapIn.opts.dataSource
            /\ IF IsNullish(mapIn.opts.modelBoard)
               THEN IsNullish(FieldOf(rec, "model_board_category"))
               ELSE FieldOf(rec, "model_board_category") = mapIn.opts.modelBoard

\* what the code does guarantee: gender and data_source always, and the
\* board category whenever the context has one
C1_ForcedWhenPresent ==
    mapOut.done =>
        LET rec == mapOut.result.models
        IN  /\ FieldOf(rec, "gender") = mapIn.opts.gender
            /\ FieldOf(rec, "data_source") = mapIn.opts.dataSource
            /\ ~IsNullish(mapIn.opts.modelBoard) =>
                   FieldOf(rec, "model_board_category") = mapIn.opts.modelBoard

(***************************************************************************)
(* The store, the environment and the requests                            *)
(*                                                                         *)
(* models maps a data_source to the number of rows of the models table    *)
(* that carry it.  env says which credentials the process has.  reqs[s]   *)
(* is the request in slot s: its form, the handler's local variables, the *)
(* handler's position pc, and the response once pc = "done".  The fields  *)
(* after, storeHad, chunks and failedRows record history for the          *)
(* properties and are never read by a handler.                            *)
(***************************************************************************)
CountOf(store, dataSource) ==
    IF dataSource \in DOMAIN store THEN store[dataSource] ELSE 0

\* the rows the upsert service adds for the records it reports as stored
Persist(store, dataSource, n) ==
    IF n = 0 THEN store
    ELSE [d \in (DOMAIN store) \cup {dataSource} |->
             IF d = dataSource THEN CountOf(store, dataSource) + n
             ELSE store[d]]

\* a faulty variant: the check never finds a record
DataSourceExistsMutNever(e, store, dataSource, queryOk) == FALSE

\* a faulty variant: a failed count query counts as a record found
DataSourceExistsMutClosed(e, store, dataSource, queryOk) ==
    IF ~e.supabase THEN FALSE
    ELSE IF ~queryOk THEN TRUE
    ELSE CountOf(store, dataSource) > 0

\* dataSourceExists; queryOk: the count query returned no error
DataSourceExists(e, store, dataSource, queryOk) ==
    IF ~e.supabase THEN FALSE
    ELSE IF ~queryOk THEN FALSE
    ELSE CountOf(store, dataSource) > 0

\* the outcomes the count query can have: none is issued without credentials
QueryOutcomes(e, outcomes) == IF e.supabase THEN outcomes ELSE {TRUE}

\* a File of the form data (present = FALSE: no file field) with the rows
\* Papa.parse reads from it
NoFile == [present |-> FALSE, name |-> "", rows |-> << >>]
FileOf(name, rows) == [present |-> TRUE, name |-> name, rows |-> rows]

\* the mapping field of the form data: its text is empty or not, and
\* MappingSchema.parse(JSON.parse(text)) throws or yields value
NoMappingStr == [empty |-> TRUE, valid |-> FALSE, value |-> MappingOf(<< >>)]
BadMappingStr == [empty |-> FALSE, valid |-> FALSE, value |-> MappingOf(<< >>)]
MappingStr(m) == [empty |-> FALSE, valid |-> TRUE, value |-> m]

\* the form data of a confirm (file, mapping, agency_id, gender) or of a
\* preview (file, gender, and feedback with previous_mapping to regenerate)
FormOf(file, gender, mapping, agencyId) ==
    [file |-> file, gender |-> gender, mapping |-> mapping,
     agency_id |-> agencyId, feedback |-> Null,
     previous_mapping |-> NoMappingStr]

RegenerateFormOf(file, gender, feedback, previousMapping) ==
    [file |-> file, gender |-> gender, mapping |-> NoMappingStr,
     agency_id |-> Null, feedback |-> feedback,
     previous_mapping |-> previousMapping]

NoForm == FormOf(NoFile, Null, NoMappingStr, Null)

\* an error thrown by the proposer's client: err.status,
\* err.response.status (0: absent), err.error.type, err.data.error.type
ErrorOf(status, responseStatus, errorType, dataErrorType) ==
    [status |-> status, responseStatus |-> responseStatus,
     errorType |-> errorType, dataErrorType |-> dataErrorType,
     message |-> Undefined]

NoError == ErrorOf(0, 0, Undefined, Undefined)

NoData == [none |-> TRUE]

NoBody == [success |-> FALSE, message |-> "", data |-> NoData]

IdleReq ==
    [kind |-> "none", pc |-> "idle", form |-> NoForm, after |-> {},
     dataSource |-> Null, exists |-> FALSE, checked |-> FALSE,
     queryOk |-> TRUE, storeHad |-> FALSE,
     inferredGender |-> Null, inferredModelBoard |-> Null,
     mapping |-> MappingOf(<< >>),
     transformed |-> << >>, modelsToUpsert |-> << >>, batchStart |-> 0,
     processed |-> 0, succeeded |-> 0, failed |-> 0, skipped |-> 0,
     warnings |-> << >>, failures |-> << >>,
     allModelIds |-> << >>, upsertedModelIds |-> << >>,
     potentialTwins |-> << >>,
     chunks |-> << >>, failedRows |-> << >>,
     userPayload |-> NoData, raw |-> Null,
     attempt |-> 0, calls |-> 0, slept |-> << >>, lastErr |-> NoError,
     status |-> 0, body |-> NoBody]

\* return NextResponse.json({ success, message, data }, { status })
Respond(r, status, success, message, data) ==
    [r EXCEPT !.pc = "done", !.status = status,
              !.body = [success |-> success, message |-> message,
                        data |-> data]]

ConflictMessage(dataSource) ==
    "This file has already been processed (data_source: " \o dataSource
        \o "). Delete it first to reprocess."

GenderMessage == "Could not infer gender from filename."

\* the requests that had been answered when request s was accepted
DoneSlots == { t \in 1..Len(reqs) : reqs[t].pc = "done" }

\* String(formData.get('gender') || '').trim(), kept if it is one of
\* MODELS_FIELDS.gender.values
ProvidedGender(genderField) ==
    LET providedGenderRaw == Trim(OrElse(genderField, ""))
    IN  IF providedGenderRaw \in SeqToSet(GenderValues)
        THEN providedGenderRaw ELSE Null

\* a faulty variant: the file's name wins over the provided gender
ResolveGenderMutInferFirst(genderField, dataSource) ==
    OrElse(InferGenderFromFilename(dataSource), ProvidedGender(genderField))

\* const inferredGender = providedGender || inferGenderFromFilename(name)
ResolveGender(genderField, dataSource) ==
    OrElse(ProvidedGender(genderField), InferGenderFromFilename(dataSource))

(***************************************************************************)
(* The confirm route (upsert/route.ts)                                     *)
(***************************************************************************)
\* Object.keys(rows[0])
KeysOf(row) == [i \in 1..Len(row) |-> row[i].k]

HasEntry(entries, key) == \E i \in 1..Len(entries) : entries[i].key = key

\* entries[key] = spec: in place when the key is there, else appended
SetEntry(entries, key, spec) ==
    IF HasEntry(entries, key)
    THEN [i \in 1..Len(entries) |->
             IF entries[i].key = key THEN Entry(key, spec) ELSE entries[i]]
    ELSE Append(entries, Entry(key, spec))

ShoeKeys ==
    {"shoe", "shoes", "shoe_size", "shoe_size_uk", "shoe_size_eu",
     "shoe_size_us", "shoe size"}

\* ensureShoeMapping
EnsureShoeMapping(mapping, headers) ==
    LET shoeCandidates ==
            SelectSeq(headers, LAMBDA h : NormalizeKey(h) \in ShoeKeys)
        entries == mapping.fieldMappings
        existingFrom ==
            IF HasEntry(entries, "models.shoe_size")
            THEN (entries[CHOOSE i \in 1..Len(entries) :
                              entries[i].key = "models.shoe_size"]).spec.from
            ELSE NoFrom
        mergedFrom ==
            Dedupe(FilterOut(existingFrom.v \o shoeCandidates, {""}))
    IN  IF Len(shoeCandidates) = 0 THEN mapping
        ELSE [mapping EXCEPT
                 !.fieldMappings =
                     SetEntry(entries, "models.shoe_size",
                              FieldSpec(FromArr(mergedFrom), "parseNumber",
                                        Undefined)),
                 !.targetTables =
                     IF "models" \in SeqToSet(mapping.targetTables)
                     THEN mapping.targetTables
                     ELSE Append(mapping.targetTables, "models")]

\* /\d{4,}/.test(s)
HasFourDigits(s) ==
    \E i \in 1..Len(s) :
        /\ i + 3 <= Len(s)
        /\ \A j \in i..(i + 3) : Ch(s, j) \in Digits

\* the pathname and the search of the URL whose scheme and authority are
\* the first schemeLen characters of link and the host that follows
PathAndSearch(rest, ends, hashes) ==
    IF ends = {} \/ SetMin(ends) = 1 THEN Undefined
    ELSE SubSeq(rest, SetMin(ends),
                (IF hashes = {} THEN Len(rest) + 1 ELSE SetMin(hashes)) - 1)

UrlTail(rest) ==
    IF rest = "" THEN Undefined
    ELSE IF \A i \in 1..Len(rest) : Ch(rest, i) \notin {"/", "?", "#"}
    THEN ""
    ELSE PathAndSearch(rest,
                       { i \in 1..Len(rest) : Ch(rest, i) \in {"/", "?", "#"} },
                       { i \in 1..Len(rest) : Ch(rest, i) = "#" })

SchemeLength(lower) ==
    IF StartsWith(lower, "https://") THEN 8
    ELSE IF StartsWith(lower, "http://") THEN 7 ELSE 0

UrlTailFrom(link, schemeLen) ==
    IF schemeLen = 0 THEN Undefined
    ELSE UrlTail(SubSeq(link, schemeLen + 1, Len(link)))

PathDigits(tail) == ~IsNullish(tail) /\ HasFourDigits(tail)

\* isLikelyValidMediaLink: new URL(link) parses, and the pathname and the
\* search of the URL hold four digits in a row
IsLikelyValidMediaLink(link) ==
    PathDigits(UrlTailFrom(link, SchemeLength(ToLowerCase(link))))

\* !v || String(v).trim() === ''
IsEmptyField(v) == IsNullish(v) \/ v = "" \/ Trim(v) = ""

\* a faulty variant: a row without a name is skipped whatever its account
IdentitylessMutNameOnly(model) == IsEmptyField(FieldOf(model, "model_name"))

\* nameEmpty && igEmpty
Identityless(model) ==
    /\ IsEmptyField(FieldOf(model, "model_name"))
    /\ IsEmptyField(FieldOf(model, "instagram_account"))

\* the entry of modelsToUpsert for row rowIndex (1-based)
UpsertPayload(record, agencyId, modelMedia) ==
    IF Len(modelMedia) > 0
    THEN [record |-> record, agency_id |-> agencyId,
          model_media |-> modelMedia]
    ELSE [record |-> record, agency_id |-> agencyId]

\* (t.models_media || []).map((m) => m?.link || m?.url), filtered
ModelMediaOf(media) ==
    SelectSeq([i \in 1..Len(media) |-> media[i].link],
              LAMBDA x : Trim(x) # "" /\ IsLikelyValidMediaLink(x))

UpsertItem(t, rowIndex, agencyId) ==
    [payload |-> UpsertPayload(t.models, agencyId, ModelMediaOf(t.models_media)),
     rowIndex |-> rowIndex,
     modelName |->
         OrElse(OrElse(FieldOf(t.models, "model_name"),
                       FieldOf(t.models, "instagram_account")),
                "Row " \o ToString(rowIndex))]

RowIndexes(n) == [i \in 1..n |-> i]

\* the request with what the existence query saw
Seen(r, queryOk, exists, storeHad) ==
    [r EXCEPT !.checked = TRUE, !.queryOk = queryOk, !.exists = exists,
              !.storeHad = storeHad]

\* the request's validation, up to the existence query being issued
ConfirmStart(s, forms) ==
    /\ s = started + 1
    /\ s <= Len(reqs)
    /\ \E form \in forms :
          LET r == [IdleReq EXCEPT !.kind = "confirm", !.form = form,
                                   !.after = DoneSlots]
          IN  reqs' = [reqs EXCEPT ![s] =
                  IF ~form.file.present \/ form.mapping.empty
                  THEN Respond(r, 400, FALSE, "Missing file or mapping", NoData)
                  ELSE IF IsNullish(form.agency_id) \/ form.agency_id = ""
                  THEN Respond(r, 400, FALSE, "agency_id is required", NoData)
                  ELSE [r EXCEPT !.pc = "check",
                                 !.dataSource =
                                     OrElse(form.file.name, "upload.csv")]]
    /\ started' = started + 1
    /\ UNCHANGED <<env, models, mapIn, mapOut>>
    /\ UNCHANGED otherVars

\* a faulty variant: confirm ignores what the existence check said
AfterConfirmCheckMutNoGate(r, exists) ==
    IF ~r.form.mapping.valid
    THEN Respond(r, 500, FALSE, "Internal error", NoData)
    ELSE [r EXCEPT !.pc = "prepare", !.mapping = r.form.mapping.value]

\* what confirm does once the existence query has said exists
AfterConfirmCheck(r, exists) ==
    IF exists
    THEN Respond(r, 409, FALSE, ConflictMessage(r.dataSource),
                 [data_source |-> r.dataSource, exists |-> TRUE])
    ELSE IF ~r.form.mapping.valid
    THEN Respond(r, 500, FALSE, "Internal error", NoData)
    ELSE [r EXCEPT !.pc = "prepare", !.mapping = r.form.mapping.value]

\* the existence query answers: 409, or the mapping is parsed and the
\* file is read
ConfirmCheck(s, queries) ==
    /\ reqs[s].kind = "confirm"
    /\ reqs[s].pc = "check"
    /\ \E queryOk \in QueryOutcomes(env, queries) :
          reqs' = [reqs EXCEPT ![s] =
              AfterConfirmCheck(
                  Seen(reqs[s], queryOk,
                       DataSourceExists(env, models, reqs[s].dataSource, queryOk),
                       CountOf(models, reqs[s].dataSource) > 0),
                  DataSourceExists(env, models, reqs[s].dataSource, queryOk))]
    /\ UNCHANGED <<env, models, started, mapIn, mapOut>>
    /\ UNCHANGED otherVars

\* the report of a confirm whose batch loop has ended
ConfirmReport(r) ==
    Respond(r, 200, TRUE,
            "Processed " \o ToString(r.processed)
                \o " models via external upsert (succeeded "
                \o ToString(r.succeeded) \o ", failed " \o ToString(r.failed)
                \o ", skipped " \o ToString(r.skipped) \o ").",
            [insertedModelIds |-> r.upsertedModelIds,
             allModelIds |-> r.allModelIds,
             modelIds |-> r.upsertedModelIds,
             potentialTwins |-> r.potentialTwins,
             warnings |-> [count |-> r.skipped, items |-> r.warnings],
             failures |-> [count |-> r.failed, items |-> r.failures]])

\* rows.map((row) => applyMappingToRow(row, mapping, opts)).  The mapper
\* is a function of the row, so each distinct row is mapped once (mapped
\* is the set of the pairs <<row, result>>) and every row reads its result.
MapRows(rows, mapped) ==
    [i \in 1..Len(rows) |-> (CHOOSE p \in mapped : p[1] = rows[i])[2]]

\* the loop that counts the rows, skips those without an identity and
\* queues the others; the report follows at once when none is queued
Queued(r, transformed, skippedRows, keptRows) ==
    [r EXCEPT
        !.transformed = transformed,
        !.processed = Len(transformed),
        !.skipped = Len(skippedRows),
        !.warnings =
            [k \in 1..Len(skippedRows) |->
                [rowIndex |-> skippedRows[k],
                 reason |-> "no model_name and no instagram_account"]],
        !.modelsToUpsert =
            [k \in 1..Len(keptRows) |->
                UpsertItem(transformed[keptRows[k]], keptRows[k],
                           r.form.agency_id)],
        !.batchStart = 0,
        !.pc = "batch"]

ReportIfNoneQueued(queued) ==
    IF Len(queued.modelsToUpsert) = 0 THEN ConfirmReport(queued) ELSE queued

QueueRows(r, transformed, skippedRows, keptRows) ==
    ReportIfNoneQueued(Queued(r, transformed, skippedRows, keptRows))

\* what confirm does with the rows once the context is resolved
SkipLoop(r, transformed) ==
    QueueRows(r, transformed,
              SelectSeq(RowIndexes(Len(transformed)),
                        LAMBDA i : Identityless(transformed[i].models)),
              SelectSeq(RowIndexes(Len(transformed)),
                        LAMBDA i : ~Identityless(transformed[i].models)))

TransformRows(r, rows, mapping, opts) ==
    SkipLoop([r EXCEPT !.mapping = mapping,
                       !.inferredGender = opts.gender,
                       !.inferredModelBoard = opts.modelBoard],
             MapRows(rows, { <<row, ApplyMappingToRow(row, mapping, opts)>> :
                                 row \in SeqToSet(rows) }))

\* the context is resolved: 400 without a gender, else the rows are mapped
WithContext(r, rows, mapping, inferredGender, inferredModelBoard) ==
    IF IsNullish(inferredGender) \/ inferredGender = ""
    THEN Respond([r EXCEPT !.mapping = mapping], 400, FALSE, GenderMessage,
                 NoData)
    ELSE TransformRows(r, rows, mapping,
                       [gender |-> inferredGender,
                        modelBoard |-> OrElse(inferredModelBoard, Null),
                        dataSource |-> r.dataSource])

\* Object.keys(rows[0]), or no key without a row
HeaderKeys(rows) == IF Len(rows) > 0 THEN KeysOf(rows[1]) ELSE << >>

\* the rows are read: gender and board category are resolved, every row
\* is mapped, and the rows with an identity are queued for the batches
ConfirmPrepare(s) ==
    /\ reqs[s].kind = "confirm"
    /\ reqs[s].pc = "prepare"
    /\ reqs' = [reqs EXCEPT ![s] =
           WithContext(reqs[s], reqs[s].form.file.rows,
                       EnsureShoeMapping(reqs[s].mapping,
                                         HeaderKeys(reqs[s].form.file.rows)),
                       ResolveGender(reqs[s].form.gender, reqs[s].dataSource),
                       InferModelBoardFromFilename(reqs[s].dataSource))]
    /\ UNCHANGED <<env, models, started, mapIn, mapOut>>
    /\ UNCHANGED otherVars

BATCH_SIZE == 50

\* one element of json.results (present = FALSE: a hole or a null)
ResultItem(status, hasResult, hasId, twins, error) ==
    [present |-> TRUE, status |-> status, hasResult |-> hasResult,
     hasId |-> hasId, twins |-> twins, error |-> error]

NoItem == [present |-> FALSE, status |-> Undefined, hasResult |-> FALSE,
           hasId |-> FALSE, twins |-> "none", error |-> Undefined]

\* what the upsert service answers to one chunk: the fetch throws
\* ("throw"), the response is not ok ("http"), or it is ok and
\* json.results holds `count` items that repeat `pattern` ("ok");
\* count is "full" (one per record), "short" (one less) or "none" (no array)
ChunkOutcome(kind, pattern, count) ==
    [kind |-> kind, pattern |-> pattern, count |-> count]

BatchResults(out, m) ==
    LET len == CASE out.kind # "ok" -> 0
                 [] out.kind = "ok" /\ out.count = "full" -> m
                 [] out.kind = "ok" /\ out.count = "short" -> m - 1
                 [] OTHER -> 0
    IN  [j \in 1..len |-> out.pattern[((j - 1) % Len(out.pattern)) + 1]]

\* how the loop over the chunk's items counts item j
ItemClass(batchResults, j) ==
    IF j > Len(batchResults) \/ ~batchResults[j].present THEN "missing"
    ELSE LET resultItem == batchResults[j]
         IN  IF resultItem.status = "success" /\ resultItem.hasResult
             THEN IF resultItem.hasId THEN "succeeded" ELSE "noId"
             ELSE IF resultItem.status = "error" THEN "error"
             ELSE "other"

\* result.model_id of the record of row rowIndex
ModelIdOf(rowIndex) == "model-" \o ToString(rowIndex)

\* a faulty variant: a failed request ends the loop
NextBatchStartMutAbort(batchStart, n, requestFailed) ==
    IF requestFailed THEN n ELSE batchStart + BATCH_SIZE

\* batchStart += BATCH_SIZE, whatever became of the chunk
NextBatchStart(batchStart, n, requestFailed) == batchStart + BATCH_SIZE

\* modelsToUpsert.slice(batchStart, batchStart + BATCH_SIZE)
CurrentBatch(r) ==
    SubSeq(r.modelsToUpsert, r.batchStart + 1,
           IF r.batchStart + BATCH_SIZE < Len(r.modelsToUpsert)
           THEN r.batchStart + BATCH_SIZE ELSE Len(r.modelsToUpsert))

\* how each record of the chunk is counted: "request" when the request
\* failed as a whole, else the class of its item
ClassesOf(m, out) ==
    [j \in 1..m |->
        IF out.kind \in {"throw", "http"} THEN "request"
        ELSE ItemClass(BatchResults(out, m), j)]

\* the positions of the chunk counted as one of classes
ItemsIn(classOf, classes) ==
    SelectSeq(RowIndexes(Len(classOf)), LAMBDA j : classOf[j] \in classes)

\* the entries pushed to potentialTwins
TwinsOf(batch, batchResults, twinItems) ==
    [k \in 1..Len(twinItems) |->
        [modelId |-> ModelIdOf(batch[twinItems[k]].rowIndex),
         potential_twins |->
             [group_id |->
                  IF batchResults[twinItems[k]].twins = "group"
                  THEN "g1" ELSE Null,
              candidate_model_ids |->
                  IF batchResults[twinItems[k]].twins = "candidates"
                  THEN <<"model-0">> ELSE << >>]]]

\* the entries pushed to failures
FailuresOf(batch, batchResults, errorItems) ==
    [k \in 1..Len(errorItems) |->
        [rowIndex |-> batch[errorItems[k]].rowIndex,
         modelName |-> batch[errorItems[k]].modelName,
         error |-> OrElse(batchResults[errorItems[k]].error, "Unknown error")]]

RowsAt(batch, items) == [k \in 1..Len(items) |-> batch[items[k]].rowIndex]

IdsAt(batch, items) ==
    [k \in 1..Len(items) |-> ModelIdOf(batch[items[k]].rowIndex)]

Counted(r, out, batch, batchResults, succeededItems, failedItems, errorItems) ==
    [r EXCEPT
        !.succeeded = @ + Len(succeededItems),
        !.failed = @ + Len(failedItems),
        !.allModelIds = @ \o IdsAt(batch, succeededItems),
        !.upsertedModelIds = @ \o IdsAt(batch, succeededItems),
        !.potentialTwins = @ \o
            TwinsOf(batch, batchResults,
                    SelectSeq(succeededItems,
                              LAMBDA j : batchResults[j].twins
                                             \in {"group", "candidates"})),
        !.failures = @ \o FailuresOf(batch, batchResults, errorItems),
        !.chunks = Append(@, [rows |-> RowsAt(batch, RowIndexes(Len(batch))),
                              kind |-> out.kind,
                              stored |-> RowsAt(batch, succeededItems)]),
        !.failedRows = @ \o RowsAt(batch, failedItems),
        !.batchStart = NextBatchStart(r.batchStart, Len(r.modelsToUpsert),
                                      out.kind \in {"throw", "http"})]

\* a faulty variant: a stored record that comes back without a model_id
\* is counted nowhere
ClassifiedMutNoId(r, out, batch, classOf) ==
    Counted(r, out, batch, BatchResults(out, Len(batch)),
            ItemsIn(classOf, {"succeeded"}),
            ItemsIn(classOf, {"request", "missing", "error", "other"}),
            ItemsIn(classOf, {"error"}))

Classified(r, out, batch, classOf) ==
    Counted(r, out, batch, BatchResults(out, Len(batch)),
            ItemsIn(classOf, {"succeeded"}),
            ItemsIn(classOf, {"request", "missing", "noId", "error", "other"}),
            ItemsIn(classOf, {"error"}))

BatchOf(r, out, batch) == Classified(r, out, batch, ClassesOf(Len(batch), out))

\* one iteration of the batch loop on the service's answer out
AfterBatch(r, out) == BatchOf(r, out, CurrentBatch(r))

\* the report once batchStart has passed the last record
ReportIfLast(r) ==
    IF r.batchStart < Len(r.modelsToUpsert) THEN r ELSE ConfirmReport(r)

\* the rows the service has stored for the last chunk sent
LastStored(r) == Len(r.chunks[Len(r.chunks)].stored)

\* one chunk is sent and its answer is processed; after the last chunk
\* the report is returned
ConfirmSendBatch(s, outcomes) ==
    /\ reqs[s].kind = "confirm"
    /\ reqs[s].pc = "batch"
    /\ \E out \in outcomes :
          /\ reqs' = [reqs EXCEPT ![s] = ReportIfLast(AfterBatch(reqs[s], out))]
          /\ models' = Persist(models, reqs[s].dataSource, LastStored(reqs'[s]))
    /\ UNCHANGED <<env, started, mapIn, mapOut>>
    /\ UNCHANGED otherVars

(***************************************************************************)
(* The mapping parser and normalizer of preview                            *)
(*                                                                         *)
(* A JSON value is a record [t, s, keys, items]: t is its type, s the text *)
(* of a string or a number, keys and items the keys and the values of an   *)
(* object, items the elements of an array.                                 *)
(***************************************************************************)
JUndefined == [t |-> "undefined", s |-> "", keys |-> << >>, items |-> << >>]
JNull == [t |-> "null", s |-> "", keys |-> << >>, items |-> << >>]
JStr(s) == [t |-> "string", s |-> s, keys |-> << >>, items |-> << >>]
JNum(s) == [t |-> "number", s |-> s, keys |-> << >>, items |-> << >>]
JArr(items) == [t |-> "array", s |-> "", keys |-> << >>, items |-> items]
JObj(keys, items) == [t |-> "object", s |-> "", keys |-> keys, items |-> items]

\* o[k] of an object
JGet(o, k) ==
    IF o.t = "object" /\ \E i \in 1..Len(o.keys) : o.keys[i] = k
    THEN o.items[CHOOSE i \in 1..Len(o.keys) : o.keys[i] = k]
    ELSE JUndefined

\* o[k] = v: the value of a key the object has is replaced in place, a new
\* key comes last
JSet(o, k, v) ==
    IF \E i \in 1..Len(o.keys) : o.keys[i] = k
    THEN [o EXCEPT !.items =
              [i \in 1..Len(o.keys) |-> IF o.keys[i] = k THEN v ELSE o.items[i]]]
    ELSE [o EXCEPT !.keys = Append(o.keys, k), !.items = Append(o.items, v)]

\* delete o[k]
JDelete(o, k) ==
    LET kept == SelectSeq([i \in 1..Len(o.keys) |-> i],
                          LAMBDA i : o.keys[i] # k)
    IN  [o EXCEPT !.keys = [j \in 1..Len(kept) |-> o.keys[kept[j]]],
                  !.items = [j \in 1..Len(kept) |-> o.items[kept[j]]]]

\* !v
JFalsy(v) ==
    \/ v.t \in {"undefined", "null"}
    \/ v.t = "string" /\ v.s = ""
    \/ v.t = "number" /\ v.s = "0"

\* typeof v === 'object' for a value that is not null
JIsObjectType(v) == v.t \in {"object", "array"}

\* Object.entries(v): an array has its indexes for keys
JEntries(v) ==
    IF v.t = "array"
    THEN JObj([i \in 1..Len(v.items) |-> ToString(i - 1)], v.items)
    ELSE v

\* the JSON documents whose parse is known: the text of each and its value
DocShorthand ==
    "{\"targetTables\":[\"models\"],\"fieldMappings\":{\"models.model_name\":\"Name\"}}"

DocNoFields == "{\"targetTables\":[\"models\"]}"

DocNoTables == "{\"targetTables\":[],\"fieldMappings\":{}}"

DocQuirks ==
    "{\"targetTables\":[\"models\",\"models_media\"],\"fieldMappings\":{\"models.model_name\":{\"from\":{\"column\":\" Name \"},\"transform\":\"trim\"},\"models.instagram_account\":[\"IG\",{\"header\":\"IG\"},\"instagram\"],\"models.height\":7,\"models.gender\":null},\"mediaMappings\":{\"models_media.link\":\"Pics\",\"models_media.id\":\"Id\",\"models.x\":\"X\"}}"

DocBadTransform ==
    "{\"targetTables\":[\"models\"],\"fieldMappings\":{\"models.model_name\":{\"from\":\"Name\",\"transform\":5}}}"

DocBadTable == "{\"targetTables\":[\"agencies\"],\"fieldMappings\":{}}"

DocNumber == "123"

DocArray == "[\"models\"]"

DocInner == "{\"from\":\"Name\"}"

TablesOf(names) == JArr([i \in 1..Len(names) |-> JStr(names[i])])

JsonDocuments ==
    { <<DocShorthand,
        JObj(<<"targetTables", "fieldMappings">>,
             <<TablesOf(<<"models">>),
               JObj(<<"models.model_name">>, <<JStr("Name")>>)>>)>>,
      <<DocNoFields, JObj(<<"targetTables">>, <<TablesOf(<<"models">>)>>)>>,
      <<DocNoTables,
        JObj(<<"targetTables", "fieldMappings">>,
             <<TablesOf(<< >>), JObj(<< >>, << >>)>>)>>,
      <<DocQuirks,
        JObj(<<"targetTables", "fieldMappings", "mediaMappings">>,
             <<TablesOf(<<"models", "models_media">>),
               JObj(<<"models.model_name", "models.instagram_account",
                      "models.height", "models.gender">>,
                    <<JObj(<<"from", "transform">>,
                           <<JObj(<<"column">>, <<JStr(" Name ")>>),
                             JStr("trim")>>),
                      JArr(<<JStr("IG"), JObj(<<"header">>, <<JStr("IG")>>),
                             JStr("instagram")>>),
                      JNum("7"),
                      JNull>>),
               JObj(<<"models_media.link", "models_media.id", "models.x">>,
                    <<JStr("Pics"), JStr("Id"), JStr("X")>>)>>)>>,
      <<DocBadTransform,
        JObj(<<"targetTables", "fieldMappings">>,
             <<TablesOf(<<"models">>),
               JObj(<<"models.model_name">>,
                    <<JObj(<<"from", "transform">>,
                           <<JStr("Name"), JNum("5")>>)>>)>>)>>,
      <<DocBadTable,
        JObj(<<"targetTables", "fieldMappings">>,
             <<TablesOf(<<"agencies">>), JObj(<< >>, << >>)>>)>>,
      <<DocNumber, JNum("123")>>,
      <<DocArray, TablesOf(<<"models">>)>>,
      <<DocInner, JObj(<<"from">>, <<JStr("Name")>>)>> }

NoJson == [ok |-> FALSE, value |-> JUndefined]

\* JSON.parse(text): the value of a known document, white space around it
\* allowed; any other text throws
JsonParse(text) ==
    LET known == { d \in JsonDocuments : d[1] = Trim(text) }
    IN  IF known = {} THEN NoJson
        ELSE [ok |-> TRUE, value |-> (CHOOSE d \in known : TRUE)[2]]

\* the three grave accents of a code fence; a string of this module cannot
\* hold that character, and "@" stands for it in every text
Fence == "@@@"

\* where the text captured after the opening fence, an optional "json" and
\* a line feed starts, for a match of that opening at position i of t (low
\* is t in lower case); 0 without a match
FenceInnerStart(t, low, i) ==
    IF ~At(t, i, Fence) THEN 0
    ELSE IF At(low, i + 3, "json\n") THEN i + 8
    ELSE IF At(t, i + 3, "\n") THEN i + 4
    ELSE 0

\* trimmed.match(/FENCE(?:json)?\n([\s\S]*?)\nFENCE/i): the capture of the
\* leftmost match, the shortest from its opening
FenceCapture(t, low, closes) ==
    LET opens == { i \in 1..Len(t) :
                     /\ FenceInnerStart(t, low, i) # 0
                     /\ \E j \in closes : j >= FenceInnerStart(t, low, i) }
    IN  IF opens = {} THEN [found |-> FALSE, inner |-> ""]
        ELSE [found |-> TRUE,
              inner |->
                  SubSeq(t, FenceInnerStart(t, low, SetMin(opens)),
                         SetMin({ j \in closes :
                                    j >= FenceInnerStart(t, low, SetMin(opens)) })
                             - 1)]

CodeFenceMatch(t) ==
    FenceCapture(t, ToLowerCase(t), { j \in 1..Len(t) : At(t, j, "\n" \o Fence) })

\* the loop that looks for the first balanced {...} that parses; braces
\* holds the positions of the braces of t, the only characters the loop
\* acts on, and k is the next of them
RECURSIVE BraceScan(_, _, _, _, _)
BraceScan(t, braces, k, start, depth) ==
    IF k > Len(braces) THEN NoJson
    ELSE IF Ch(t, braces[k]) = "{"
    THEN BraceScan(t, braces, k + 1,
                   IF start = 0 THEN braces[k] ELSE start, depth + 1)
    ELSE IF (IF depth > 0 THEN depth - 1 ELSE 0) = 0 /\ start # 0
    THEN IF JsonParse(SubSeq(t, start, braces[k])).ok
         THEN JsonParse(SubSeq(t, start, braces[k]))
         ELSE BraceScan(t, braces, k + 1, 0, 0)
    ELSE BraceScan(t, braces, k + 1, start, IF depth > 0 THEN depth - 1 ELSE 0)

BracesOf(t) ==
    SelectSeq([i \in 1..Len(t) |-> i], LAMBDA i : Ch(t, i) \in {"{", "}"})

FencedOrScanned(trimmed, fence) ==
    IF fence.found /\ JsonParse(fence.inner).ok THEN JsonParse(fence.inner)
    ELSE BraceScan(trimmed, BracesOf(trimmed), 1, 0, 0)

\* extractJsonObject(text); ok = FALSE when it throws
ExtractJsonObject(text) ==
    IF JsonParse(text).ok THEN JsonParse(text)
    ELSE FencedOrScanned(Trim(text), CodeFenceMatch(Trim(text)))

\* the value coerceMappingRecord stores for one entry
CoercedValue(value) ==
    IF value.t \in {"null", "undefined"} THEN JObj(<< >>, << >>)
    ELSE IF value.t \in {"string", "array"} THEN JObj(<<"from">>, <<value>>)
    ELSE value

\* the entries coerceMappingRecord keeps: of the allowed table, when one is
\* given, and with a value that is null, a string, an array or an object
CoercedKeys(entries, allowedTable) ==
    SelectSeq([i \in 1..Len(entries.keys) |-> i],
              LAMBDA i :
                  /\ allowedTable # "" =>
                         Split(entries.keys[i], ".")[1] = allowedTable
                  /\ entries.items[i].t \in
                         {"null", "undefined", "string", "array", "object"})

CoercedEntries(entries, kept) ==
    JObj([j \in 1..Len(kept) |-> entries.keys[kept[j]]],
         [j \in 1..Len(kept) |-> CoercedValue(entries.items[kept[j]])])

\* coerceMappingRecord(record, allowedTable); allowedTable is "" when the
\* call gives none
CoerceMappingRecord(record, allowedTable) ==
    IF JFalsy(record) \/ ~JIsObjectType(record) THEN JObj(<< >>, << >>)
    ELSE CoercedEntries(JEntries(record),
                        CoercedKeys(JEntries(record), allowedTable))

\* pushIfString(v): the strings it adds to collect
PushIfString(v) ==
    IF v.t = "string" /\ Trim(v.s) # "" THEN <<Trim(v.s)>> ELSE << >>

\* extractFromObj(o): the strings it adds to collect
ExtractFromObj(o) ==
    IF JFalsy(o) \/ ~JIsObjectType(o) THEN << >>
    ELSE PushIfString(JGet(o, "from")) \o PushIfString(JGet(o, "name"))
             \o PushIfString(JGet(o, "column")) \o PushIfString(JGet(o, "header"))

RECURSIVE CollectItems(_)
CollectItems(items) ==
    IF Len(items) = 0 THEN << >>
    ELSE (IF Head(items).t = "string" THEN PushIfString(Head(items))
          ELSE IF Head(items).t \in {"object", "array", "null"}
          THEN ExtractFromObj(Head(items))
          ELSE << >>)
         \o CollectItems(Tail(items))

\* the array collect of normalizeFromSpec
CollectFrom(from) ==
    IF from.t = "string" THEN PushIfString(from)
    ELSE IF from.t = "array" THEN CollectItems(from.items)
    ELSE IF from.t = "object" THEN ExtractFromObj(from)
    ELSE << >>

FromOfCollected(collect) ==
    IF Len(collect) = 0 THEN JUndefined
    ELSE IF Len(collect) = 1 THEN JStr(collect[1])
    ELSE TablesOf(Dedupe(collect))

\* normalizeFromSpec(from)
NormalizeFromSpec(from) ==
    IF from.t \in {"null", "undefined"} THEN JUndefined
    ELSE FromOfCollected(CollectFrom(from))

\* what normalizeFromOn does to one spec
NormalizeFromOfSpec(spec, normalized) ==
    IF spec.t # "object" THEN spec
    ELSE IF normalized.t # "undefined" THEN JSet(spec, "from", normalized)
    ELSE JDelete(spec, "from")

\* normalizeFromOn(rec)
NormalizeFromOn(rec) ==
    [rec EXCEPT !.items =
        [i \in 1..Len(rec.items) |->
            NormalizeFromOfSpec(rec.items[i],
                                NormalizeFromSpec(JGet(rec.items[i], "from")))]]

\* the mediaMappings normalizeMappingShape keeps: models_media.link alone,
\* undefined without it
FilteredMedia(coercedMedia) ==
    IF JGet(coercedMedia, "models_media.link").t = "undefined" THEN JUndefined
    ELSE NormalizeFromOn(JObj(<<"models_media.link">>,
                              <<JGet(coercedMedia, "models_media.link")>>))

\* normalizeMappingShape(obj)
NormalizeMappingShape(obj) ==
    IF JFalsy(obj) \/ ~JIsObjectType(obj) THEN obj
    ELSE JSet(JSet(JEntries(obj), "fieldMappings",
                   NormalizeFromOn(
                       CoerceMappingRecord(JGet(JEntries(obj), "fieldMappings"),
                                           ""))),
              "mediaMappings",
              FilteredMedia(
                  CoerceMappingRecord(JGet(JEntries(obj), "mediaMappings"),
                                      "models_media")))

\* z.union([z.string(), z.array(z.string())]).optional()
FromFits(from) ==
    \/ from.t \in {"undefined", "string"}
    \/ from.t = "array" /\ \A i \in 1..Len(from.items) : from.items[i].t = "string"

\* the z.object of one mapping entry
SpecFits(spec) ==
    /\ spec.t = "object"
    /\ FromFits(JGet(spec, "from"))
    /\ JGet(spec, "transform").t \in {"undefined", "string"}

\* z.record(z.string(), z.object({...}))
RecordFits(rec) ==
    rec.t = "object" /\ \A i \in 1..Len(rec.items) : SpecFits(rec.items[i])

\* z.array(z.enum(['models', 'models_media'])).min(1)
TablesFit(tables) ==
    /\ tables.t = "array"
    /\ Len(tables.items) >= 1
    /\ \A i \in 1..Len(tables.items) :
           /\ tables.items[i].t = "string"
           /\ tables.items[i].s \in {"models", "models_media"}

\* MappingSchema accepts the value
SchemaFits(v) ==
    /\ v.t = "object"
    /\ TablesFit(JGet(v, "targetTables"))
    /\ RecordFits(JGet(v, "fieldMappings"))
    /\ JGet(v, "mediaMappings").t = "undefined" \/ RecordFits(JGet(v, "mediaMappings"))
    /\ JGet(v, "notes").t \in {"undefined", "string"}

\* the `from` of a parsed entry
FromOf(from) ==
    IF from.t = "string" THEN FromStr(from.s)
    ELSE IF from.t = "array"
    THEN FromArr([i \in 1..Len(from.items) |-> from.items[i].s])
    ELSE NoFrom

\* a transform or a default of a parsed entry
ScalarOf(v) ==
    CASE v.t = "undefined" -> Undefined
      [] v.t = "null" -> Null
      [] v.t \in {"string", "number"} -> v.s

EntriesOf(rec) ==
    IF rec.t = "undefined" THEN << >>
    ELSE [i \in 1..Len(rec.keys) |->
             Entry(rec.keys[i],
                   FieldSpec(FromOf(JGet(rec.items[i], "from")),
                             ScalarOf(JGet(rec.items[i], "transform")),
                             ScalarOf(JGet(rec.items[i], "default"))))]

\* the Mapping MappingSchema.parse returns for a value it accepts
ParsedMapping(v) ==
    [targetTables |->
         [i \in 1..Len(JGet(v, "targetTables").items) |->
             JGet(v, "targetTables").items[i].s],
     fieldMappings |-> EntriesOf(JGet(v, "fieldMappings")),
     mediaMappings |-> EntriesOf(JGet(v, "mediaMappings"))]

NoMapping == [ok |-> FALSE, mapping |-> MappingOf(<< >>)]

\* MappingSchema.parse(normalizeMappingShape(obj)); ok = FALSE when it throws
SchemaParse(normalized) ==
    IF SchemaFits(normalized)
    THEN [ok |-> TRUE, mapping |-> ParsedMapping(normalized)]
    ELSE NoMapping

ParseExtracted(extracted) ==
    IF ~extracted.ok THEN NoMapping
    ELSE SchemaParse(NormalizeMappingShape(extracted.value))

\* the try block of preview that turns the text of the message into a mapping
MappingOfText(raw) == ParseExtracted(ExtractJsonObject(raw))

\* texts of the proposer: a document alone, in a code fence, in prose,
\* after a brace group that does not parse, and texts without a mapping
ProposerTexts ==
    { DocShorthand,
      "Here is the mapping:\n" \o Fence \o "json\n" \o DocQuirks \o "\n" \o Fence,
      "Sure. " \o DocShorthand \o " Done.",
      "{see below} " \o DocNoTables \o " " \o DocShorthand,
      DocNoFields,
      DocBadTransform,
      DocBadTable,
      DocNumber,
      "I could not work out a mapping.",
      "" }

\* the parser is a function of the text: each text of the proposer is
\* parsed once, and a message reads the result of its text
ParsedTexts == { <<text, MappingOfText(text)>> : text \in ProposerTexts }

ParsedOf(text) == (CHOOSE p \in ParsedTexts : p[1] = text)[2]

(***************************************************************************)
(* The preview route (preview/route.ts)                                    *)
(***************************************************************************)
SAMPLE_SIZE == 20
PREVIEW_ROWS == 5

\* q.slice(0, n)
Take(q, n) == SubSeq(q, 1, IF n < Len(q) THEN n ELSE Len(q))

\* the delays handed to withRetries
DelaysMs == <<800, 1600, 3200>>

\* err?.status || err?.response?.status
ErrStatus(err) == IF err.status # 0 THEN err.status ELSE err.responseStatus

\* err?.error?.type || err?.data?.error?.type
ErrType(err) == OrElse(err.errorType, err.dataErrorType)

\* a faulty variant: every error is retried
ShouldRetryMutAlways(err) == TRUE

\* the shouldRetry handed to withRetries
ShouldRetry(err) == ErrStatus(err) = 529 \/ ErrType(err) = "overloaded_error"

\* a faulty variant: the budget ends one attempt early
RetryBudgetSpentMutEarly(attempt, delaysMs) == attempt + 1 >= Len(delaysMs)

\* attempt === delaysMs.length
RetryBudgetSpent(attempt, delaysMs) == attempt = Len(delaysMs)

\* what one call of anthropic.messages.create yields: an error thrown, or
\* a message whose content[0] is absent ("none"), of another type than text,
\* or a text
Thrown(err) == [ok |-> FALSE, err |-> err, content |-> "none", text |-> ""]

Message(content, text) ==
    [ok |-> TRUE, err |-> NoError, content |-> content, text |-> text]

\* the key is read and the form data; the existence query is issued
PreviewStart(s, forms) ==
    /\ s = started + 1
    /\ s <= Len(reqs)
    /\ \E form \in forms :
          LET r == [IdleReq EXCEPT !.kind = "preview", !.form = form,
                                   !.after = DoneSlots]
          IN  reqs' = [reqs EXCEPT ![s] =
                  IF ~env.anthropicKey
                  THEN Respond(r, 500, FALSE,
                               "Server misconfig: ANTHROPIC_API_KEY is not set",
                               NoData)
                  ELSE [r EXCEPT !.pc = "check",
                                 !.dataSource =
                                     IF form.file.present
                                     THEN OrElse(form.file.name, "upload.csv")
                                     ELSE "upload.csv"]]
    /\ started' = started + 1
    /\ UNCHANGED <<env, models, mapIn, mapOut>>
    /\ UNCHANGED otherVars

\* previousMapping of the user payload: the parsed previous_mapping, or
\* null when the field is empty or does not parse
PreviousMapping(field) ==
    IF ~field.empty /\ field.valid
    THEN [given |-> TRUE, value |-> field.value]
    ELSE [given |-> FALSE, value |-> MappingOf(<< >>)]

\* the user payload of the proposer call
UserPayload(r, sample, inferredGender, inferredModelBoard) ==
    [sampleRows |-> Take(sample, 10),
     provided |-> [gender |-> inferredGender,
                   model_board_category |-> OrElse(inferredModelBoard, Null),
                   data_source |-> r.dataSource],
     previousMapping |-> PreviousMapping(r.form.previous_mapping),
     reviewFeedback |-> OrElse(Trim(OrElse(r.form.feedback, "")), Null)]

\* what preview does once the existence query has said exists
AfterPreviewCheck(r, exists, inferredGender, inferredModelBoard) ==
    IF exists
    THEN Respond(r, 409, FALSE, ConflictMessage(r.dataSource),
                 [data_source |-> r.dataSource, exists |-> TRUE])
    ELSE IF ~r.form.file.present
    THEN Respond(r, 400, FALSE, "Missing file", NoData)
    ELSE IF IsNullish(inferredGender) \/ inferredGender = ""
    THEN Respond(r, 400, FALSE, GenderMessage, NoData)
    ELSE [r EXCEPT
             !.pc = "call",
             !.inferredGender = inferredGender,
             !.inferredModelBoard = inferredModelBoard,
             !.userPayload =
                 UserPayload(r, Take(r.form.file.rows, SAMPLE_SIZE),
                             inferredGender, inferredModelBoard)]

PreviewChecked(r, queryOk, exists, storeHad) ==
    AfterPreviewCheck(Seen(r, queryOk, exists, storeHad), exists,
                      ResolveGender(r.form.gender, r.dataSource),
                      InferModelBoardFromFilename(r.dataSource))

\* the existence query answers: 409, or the context is inferred and the
\* sample is read
PreviewCheck(s, queries) ==
    /\ reqs[s].kind = "preview"
    /\ reqs[s].pc = "check"
    /\ \E queryOk \in QueryOutcomes(env, queries) :
          reqs' = [reqs EXCEPT ![s] =
              PreviewChecked(reqs[s], queryOk,
                  DataSourceExists(env, models, reqs[s].dataSource, queryOk),
                  CountOf(models, reqs[s].dataSource) > 0)]
    /\ UNCHANGED <<env, models, started, mapIn, mapOut>>
    /\ UNCHANGED otherVars

\* the response of preview to the error withRetries throws
ProposerFailure(r, err) ==
    LET status == ErrStatus(err)
        errorType == ErrType(err)
    IN  IF status = 401
        THEN Respond(r, 401, FALSE, "Anthropic authentication failed (401).",
                     [keyInfo |-> TRUE])
        ELSE IF status = 529 \/ errorType = "overloaded_error"
        THEN Respond(r, 503, FALSE,
                     "Anthropic is temporarily overloaded (529).",
                     [keyInfo |-> TRUE, status |-> status,
                      errorType |-> errorType])
        ELSE Respond(r, 500, FALSE,
                     OrElse(err.message, "Upstream error calling Anthropic"),
                     [keyInfo |-> TRUE, status |-> status,
                      errorType |-> errorType])

\* the response of preview to the message the proposer returned
PreviewReport(r, mapping, previewRows) ==
    Respond([r EXCEPT !.mapping = mapping], 200, TRUE, "",
            [mapping |-> mapping,
             samplePreview |->
                 [i \in 1..Len(previewRows) |-> previewRows[i].models],
             inferred |->
                 [gender |-> r.inferredGender,
                  model_board_category |-> r.inferredModelBoard,
                  data_source |-> r.dataSource]])

\* sample.rows.slice(0, 5).map((row) => applyMappingToRow(row, mapping, opts))
PreviewRows(rows, mapping, opts) ==
    MapRows(rows, { <<row, ApplyMappingToRow(row, mapping, opts)>> :
                        row \in SeqToSet(rows) })

\* String(content.text || '').slice(0, 600)
Snippet(text) == Take(text, 600)

\* the mapping is parsed from the text, or the failure carries the snippet
ProposerParsed(r, text, parsed) ==
    IF ~parsed.ok
    THEN Respond(r, 500, FALSE, "Failed to parse mapping from Claude.",
                 [snippet |-> Snippet(text)])
    ELSE PreviewReport(r, parsed.mapping,
             PreviewRows(Take(Take(r.form.file.rows, SAMPLE_SIZE), PREVIEW_ROWS),
                         parsed.mapping,
                         [gender |-> r.inferredGender,
                          modelBoard |-> OrElse(r.inferredModelBoard, Null),
                          dataSource |-> r.dataSource]))

ProposerSuccess(r, msg) ==
    IF msg.content # "text"
    THEN Respond(r, 500, FALSE, "Invalid response from Claude", NoData)
    ELSE ProposerParsed([r EXCEPT !.raw = msg.text], msg.text,
                        ParsedOf(msg.text))

\* one iteration of the loop of withRetries: fn() is awaited; its result
\* is returned, or its error ends the loop or leads to the next sleep
PreviewCall(s, outcomes) ==
    /\ reqs[s].kind = "preview"
    /\ reqs[s].pc = "call"
    /\ \E msg \in outcomes :
          LET r == [reqs[s] EXCEPT !.calls = @ + 1]
          IN  reqs' = [reqs EXCEPT ![s] =
                  IF msg.ok THEN ProposerSuccess(r, msg)
                  ELSE IF \/ ~ShouldRetry(msg.err)
                          \/ RetryBudgetSpent(r.attempt, DelaysMs)
                  THEN ProposerFailure([r EXCEPT !.lastErr = msg.err], msg.err)
                  ELSE [r EXCEPT !.lastErr = msg.err, !.pc = "sleep"]]
    /\ UNCHANGED <<env, models, started, mapIn, mapOut>>
    /\ UNCHANGED otherVars

\* await sleep(delaysMs[attempt]), then attempt++
PreviewSleep(s) ==
    /\ reqs[s].kind = "preview"
    /\ reqs[s].pc = "sleep"
    /\ reqs' = [reqs EXCEPT ![s] =
           [@ EXCEPT !.slept = Append(@, DelaysMs[reqs[s].attempt + 1]),
                     !.attempt = @ + 1,
                     !.pc = "call"]]
    /\ UNCHANGED <<env, models, started, mapIn, mapOut>>
    /\ UNCHANGED otherVars

(***************************************************************************)
(* Inputs of the routes                                                    *)
(***************************************************************************)
MaxRows == 101

NamedRow == << Cell("Name", "jane doe"), Cell("IG", "@jane"),
               Cell("Gender", "Male"), Cell("Pics", "https://cdn.x/p/12345.jpg") >>
InstagramOnlyRow == << Cell("Name", ""), Cell("IG", "@solo"),
                       Cell("Gender", ""), Cell("Pics", "https://cdn.x/p/1.jpg") >>
NameOnlyRow == << Cell("Name", "ann-marie o'neil"), Cell("IG", " "),
                  Cell("Gender", "f"), Cell("Pics", "") >>
BlankRow == << Cell("Name", "  "), Cell("IG", ""), Cell("Gender", "Female"),
               Cell("Pics", "https://cdn.x/p/99999.jpg") >>

\* the rows of a CSV of n rows that repeats pattern
CsvOf(n, pattern) ==
    [i \in 1..n |-> pattern[((i - 1) % Len(pattern)) + 1]]

RowPatterns ==
    { <<NamedRow>>, <<NamedRow, BlankRow, InstagramOnlyRow>>, <<BlankRow>>,
      <<BlankRow, NameOnlyRow>> }

BasicMapping == MappingOf(<<NameEntry, InstagramEntry>>)

MediaMapping ==
    [targetTables |-> <<"models", "models_media">>,
     fieldMappings |->
         <<NameEntry, InstagramEntry,
           Entry("models.gender",
                 FieldSpec(FromStr("Gender"), "normalizeGender", Undefined))>>,
     mediaMappings |->
         <<Entry("models_media.link",
                 FieldSpec(FromStr("Pics"), Undefined, Undefined))>>]

SmallCsv == CsvOf(3, <<NamedRow, BlankRow, InstagramOnlyRow>>)

\* confirm forms that differ in what the validation and the parsing of
\* the mapping look at
ValidationForms ==
    { FormOf(NoFile, Null, MappingStr(BasicMapping), "agency-1"),
      FormOf(FileOf("women_agency.csv", SmallCsv), Null, NoMappingStr,
             "agency-1"),
      FormOf(FileOf("women_agency.csv", SmallCsv), Null,
             MappingStr(BasicMapping), Null),
      FormOf(FileOf("women_agency.csv", SmallCsv), Null, BadMappingStr,
             "agency-1"),
      FormOf(FileOf("elite_models.csv", SmallCsv), Null, BadMappingStr, "") }

FileNames == {"women_agency.csv", "elite_models.csv", "boys-teen-2024.csv", ""}

GenderFields == {Null, "male", " non-binary ", "banana", "Female", ""}

\* confirm forms that differ in the file name and the gender field
GenderForms ==
    { FormOf(FileOf(name, SmallCsv), gender, MappingStr(BasicMapping),
             "agency-1") : name \in FileNames, gender \in GenderFields }

\* confirm forms that differ in the rows
BatchForms ==
    { FormOf(FileOf("women_agency.csv", CsvOf(n, pattern)), Null,
             MappingStr(mapping), "agency-1") :
          n \in {0, 1, 3, BATCH_SIZE, BATCH_SIZE + 1, MaxRows},
          pattern \in RowPatterns,
          mapping \in {BasicMapping, MediaMapping} }

ConfirmForms == ValidationForms \cup GenderForms \cup BatchForms

PreviewForms ==
    { FormOf(NoFile, gender, NoMappingStr, Null) : gender \in {Null, "male"} }
      \cup { FormOf(FileOf("men.csv", << >>), Null, NoMappingStr, Null) }
      \cup { FormOf(FileOf(name, CsvOf(n, <<NamedRow, BlankRow, NameOnlyRow>>)),
                    gender, NoMappingStr, Null) :
                 name \in FileNames, gender \in GenderFields, n \in {7} }
      \cup { RegenerateFormOf(FileOf("boys-teen-2024.csv", SmallCsv), Null,
                              " use IG for the name ", previous) :
                 previous \in {MappingStr(BasicMapping), BadMappingStr} }

MixedResults ==
    << ResultItem("success", TRUE, TRUE, "none", Undefined),
       ResultItem("error", FALSE, FALSE, "none", "duplicate key"),
       ResultItem("success", TRUE, FALSE, "none", Undefined),
       ResultItem("pending", FALSE, FALSE, "none", Undefined),
       NoItem,
       ResultItem("success", FALSE, FALSE, "none", Undefined),
       ResultItem("error", FALSE, FALSE, "none", Undefined),
       ResultItem("success", TRUE, TRUE, "group", Undefined),
       ResultItem("success", TRUE, TRUE, "candidates", Undefined),
       ResultItem("success", TRUE, TRUE, "empty", Undefined) >>

AllStored == <<ResultItem("success", TRUE, TRUE, "none", Undefined)>>

ChunkOutcomes ==
    { ChunkOutcome("throw", AllStored, "none"),
      ChunkOutcome("http", AllStored, "none"),
      ChunkOutcome("ok", AllStored, "full"),
      ChunkOutcome("ok", MixedResults, "full"),
      ChunkOutcome("ok", AllStored, "short"),
      ChunkOutcome("ok", AllStored, "none") }

\* the errors the proposer's client throws
OverloadErrors ==
    { ErrorOf(529, 0, "overloaded_error", Undefined),
      ErrorOf(0, 529, Undefined, Undefined),
      ErrorOf(0, 0, "overloaded_error", Undefined),
      ErrorOf(0, 0, Undefined, "overloaded_error") }

OtherErrors ==
    { ErrorOf(401, 0, "authentication_error", Undefined),
      ErrorOf(0, 401, Undefined, Undefined),
      ErrorOf(429, 0, "rate_limit_error", Undefined),
      ErrorOf(500, 0, "api_error", Undefined),
      ErrorOf(0, 0, Undefined, Undefined) }

ProposerOutcomes ==
    { Thrown(err) : err \in OverloadErrors \cup OtherErrors }
      \cup { Message("text", text) : text \in ProposerTexts }
      \cup { Message("tool_use", ""), Message("none", "") }

Environments ==
    { [anthropicKey |-> TRUE, supabase |-> TRUE],
      [anthropicKey |-> FALSE, supabase |-> TRUE],
      [anthropicKey |-> TRUE, supabase |-> FALSE] }

NoRows == [d \in {} |-> 0]

InitialStores ==
    { NoRows, [d \in {"women_agency.csv", "upload.csv"} |-> 2] }

(***************************************************************************)
(* SpecOne: one request, preview or confirm, on every input above          *)
(***************************************************************************)
IdleMapper ==
    /\ mapIn = [row |-> << >>, mapping |-> MappingOf(<< >>),
                opts |-> [gender |-> Null, modelBoard |-> Null,
                          dataSource |-> Null]]
    /\ mapOut = [done |-> FALSE, result |-> NoResult]

OneInit ==
    /\ env \in Environments
    /\ models \in InitialStores
    /\ reqs = <<IdleReq>>
    /\ started = 0
    /\ IdleMapper
    /\ OtherIdle

OneNext ==
    \/ ConfirmStart(1, ConfirmForms)
    \/ ConfirmCheck(1, BOOLEAN)
    \/ ConfirmPrepare(1)
    \/ ConfirmSendBatch(1, ChunkOutcomes)
    \/ PreviewStart(1, PreviewForms)
    \/ PreviewCheck(1, BOOLEAN)
    \/ PreviewCall(1, ProposerOutcomes)
    \/ PreviewSleep(1)

SpecOne == OneInit /\ [][OneNext]_vars

(***************************************************************************)
(* Properties of one request                                               *)
(***************************************************************************)
Slots == 1..Len(reqs)

Confirms == { s \in Slots : reqs[s].kind = "confirm" }
Previews == { s \in Slots : reqs[s].kind = "preview" }

\* the confirm in slot s has run its loop over the rows
RowsCounted(s) ==
    /\ reqs[s].kind = "confirm"
    /\ reqs[s].pc = "batch" \/ (reqs[s].pc = "done" /\ reqs[s].status = 200)

\* a value that is missing, empty or made of white space only
MissingOrBlank(v) ==
    \/ v \in {Null, Undefined, ""}
    \/ \A i \in 1..Len(v) : Ch(v, i) \in WhiteSpace

\* the rows (1-based) of the confirm in slot s whose mapped model_name and
\* instagram_account are both missing or empty
BlankRows(s) ==
    { i \in 1..Len(reqs[s].transformed) :
        /\ MissingOrBlank(FieldOf(reqs[s].transformed[i].models, "model_name"))
        /\ MissingOrBlank(FieldOf(reqs[s].transformed[i].models,
                                  "instagram_account")) }

\* the rows forwarded to the upsert service so far
ForwardedRows(s) ==
    UNION { SeqToSet(reqs[s].chunks[k].rows) : k \in 1..Len(reqs[s].chunks) }

RowIndexesOf(items) == { items[k].rowIndex : k \in 1..Len(items) }

\* C5: in confirm every row whose mapped model_name and instagram_account
\* are both missing or empty is counted as skipped and has one warning that
\* carries its row index; it is never queued for or forwarded to the upsert
\* service, never appears in the failure items and is never counted as
\* failed; no other row is skipped.
C5_BlankRowsSkipped ==
    \A s \in Slots :
        RowsCounted(s) =>
            /\ reqs[s].skipped = Cardinality(BlankRows(s))
            /\ Len(reqs[s].warnings) = reqs[s].skipped
            /\ RowIndexesOf(reqs[s].warnings) = BlankRows(s)
            /\ RowIndexesOf(reqs[s].modelsToUpsert) \cap BlankRows(s) = {}
            /\ ForwardedRows(s) \cap BlankRows(s) = {}
            /\ RowIndexesOf(reqs[s].failures) \cap BlankRows(s) = {}
            /\ SeqToSet(reqs[s].failedRows) \cap BlankRows(s) = {}
            /\ reqs[s].failed <= Len(reqs[s].transformed) - reqs[s].skipped
            /\ reqs[s].pc = "done" =>
                   /\ reqs[s].body.data.warnings.count = reqs[s].skipped
                   /\ reqs[s].body.data.warnings.items = reqs[s].warnings

\* a confirm has reported rows skipped next to rows forwarded, some of
\* which failed
C5_Witness ==
    \E s \in Slots :
        /\ RowsCounted(s) /\ reqs[s].pc = "done"
        /\ reqs[s].skipped > 1
        /\ reqs[s].skipped < reqs[s].processed
        /\ reqs[s].failed > 0 /\ reqs[s].succeeded > 0
        /\ Len(reqs[s].failures) > 0

RECURSIVE Total(_)
Total(q) == IF Len(q) = 0 THEN 0 ELSE Head(q) + Total(Tail(q))

\* the number of chunks of at most BATCH_SIZE that n records make
ChunksOf(n) == (n + BATCH_SIZE - 1) \div BATCH_SIZE

\* chunk k of the confirm in slot s holds the records queued at positions
\* (k-1)*BATCH_SIZE+1 .. k*BATCH_SIZE, in order
ChunkInPlace(s, k) ==
    LET queued == reqs[s].modelsToUpsert
        first == (k - 1) * BATCH_SIZE + 1
        last == IF k * BATCH_SIZE < Len(queued) THEN k * BATCH_SIZE
                ELSE Len(queued)
    IN  /\ first <= Len(queued)
        /\ reqs[s].chunks[k].rows =
               [j \in 1..(last - first + 1) |-> queued[first + j - 1].rowIndex]

\* C6: confirm forwards the queued records in chunks of BATCH_SIZE (the
\* last one may be smaller), in order, and attempts every chunk: when it
\* reports, as many chunks were sent as the records make, whatever failed
\* before.  A chunk whose request fails (thrown error or non-2xx response)
\* counts its own records as failed and no other: the failed rows are the
\* rows of the chunks that were not stored, and every record the service
\* stored is counted as succeeded.
C6_EveryChunkAttempted ==
    \A s \in Slots :
        RowsCounted(s) =>
            LET chunks == reqs[s].chunks
            IN  /\ \A k \in 1..Len(chunks) : ChunkInPlace(s, k)
                /\ Len(chunks) <= ChunksOf(Len(reqs[s].modelsToUpsert))
                /\ reqs[s].pc = "done" =>
                       Len(chunks) = ChunksOf(Len(reqs[s].modelsToUpsert))
                /\ reqs[s].pc = "batch" =>
                       reqs[s].batchStart = Len(chunks) * BATCH_SIZE
                /\ \A k \in 1..Len(chunks) :
                       chunks[k].kind \in {"throw", "http"} =>
                           /\ chunks[k].stored = << >>
                           /\ SeqToSet(chunks[k].rows)
                                  \subseteq SeqToSet(reqs[s].failedRows)
                /\ SeqToSet(reqs[s].failedRows) =
                       UNION { SeqToSet(chunks[k].rows)
                                   \ SeqToSet(chunks[k].stored) :
                               k \in 1..Len(chunks) }
                /\ reqs[s].failed =
                       Total([k \in 1..Len(chunks) |->
                                 Len(chunks[k].rows) - Len(chunks[k].stored)])
                /\ reqs[s].succeeded =
                       Total([k \in 1..Len(chunks) |-> Len(chunks[k].stored)])

\* a confirm has reported after three chunks of which the first two failed
\* as requests and the third was stored
C6_Witness ==
    \E s \in Slots :
        /\ RowsCounted(s) /\ reqs[s].pc = "done"
        /\ Len(reqs[s].chunks) = 3
        /\ reqs[s].chunks[1].kind = "http"
        /\ reqs[s].chunks[2].kind = "throw"
        /\ Len(reqs[s].chunks[1].rows) = BATCH_SIZE
        /\ Len(reqs[s].chunks[3].rows) < BATCH_SIZE
        /\ Len(reqs[s].chunks[3].stored) = Len(reqs[s].chunks[3].rows)
        /\ reqs[s].failed = 2 * BATCH_SIZE

\* C7: in the report of confirm every record counted as failed has an
\* entry in failures.items that carries its 1-based row index.
C7_FailedRowsAttributed ==
    \A s \in Slots :
        (RowsCounted(s) /\ reqs[s].pc = "done") =>
            /\ reqs[s].body.data.failures.count = Len(reqs[s].failedRows)
            /\ SeqToSet(reqs[s].failedRows)
                   \subseteq RowIndexesOf(reqs[s].body.data.failures.items)

\* the error carries the transient-overload signal: HTTP status 529 or
\* error type overloaded_error
CarriesOverload(err) ==
    \/ 529 \in {err.status, err.responseStatus}
    \/ "overloaded_error" \in {err.errorType, err.dataErrorType}

RetriedOnlyOnOverload ==
    \A s \in Previews :
        /\ Len(reqs[s].slept) = reqs[s].attempt
        /\ reqs[s].pc = "sleep" => CarriesOverload(reqs[s].lastErr)
        /\ (reqs[s].lastErr # NoError /\ ~CarriesOverload(reqs[s].lastErr)) =>
               /\ reqs[s].pc = "done"
               /\ ~reqs[s].body.success
               /\ reqs[s].status \in {401, 500}
               /\ reqs[s].calls = Len(reqs[s].slept) + 1
               /\ reqs[s].slept = << >> => reqs[s].calls = 1

CallAgainOnlyAfterOverload ==
    \A s \in Slots :
        reqs[s].kind = "preview" =>
            /\ (reqs'[s].calls # reqs[s].calls /\ reqs[s].calls > 0) =>
                   CarriesOverload(reqs[s].lastErr)
            /\ reqs'[s].slept # reqs[s].slept =>
                   CarriesOverload(reqs[s].lastErr)

\* C8: a proposer call is retried only when the error it threw carries the
\* overload signal (status 529 or type overloaded_error): a wait or a call
\* after the first happens only after such an error.  Any other error,
\* 401 included, ends the request at once with a failure response, no
\* wait and no further call: when it is the first error, exactly one call
\* was made.
C8_RetryOnlyOnOverload ==
    []RetriedOnlyOnOverload /\ [][CallAgainOnlyAfterOverload]_vars

\* a preview has ended with 401 after exactly one call and no wait
C8_Witness ==
    \E s \in Previews :
        /\ reqs[s].pc = "done" /\ reqs[s].status = 401
        /\ reqs[s].lastErr.errorType = "authentication_error"
        /\ reqs[s].calls = 1 /\ reqs[s].slept = << >>

\* C9: under overload the proposer is called at most four times with
\* waits of 800, 1600 and 3200 ms between the calls, in that order, and
\* no wait after the last call; a fourth call always ends the request, a
\* successful call ends it on any attempt, and a request that ends with
\* "overloaded" (503) made exactly four calls.  503 is kept apart from
\* authentication failure (401, error status 401) and from the missing
\* credential (500 without any call).
C9_RetryBudget ==
    \A s \in Previews :
        /\ Len(reqs[s].slept) <= 3
        /\ reqs[s].slept = SubSeq(<<800, 1600, 3200>>, 1, Len(reqs[s].slept))
        /\ reqs[s].calls <= 4
        /\ reqs[s].pc = "call" => reqs[s].calls = Len(reqs[s].slept)
        /\ reqs[s].pc = "sleep" => reqs[s].calls = Len(reqs[s].slept) + 1
        /\ (reqs[s].pc = "done" /\ reqs[s].calls > 0) =>
               reqs[s].calls = Len(reqs[s].slept) + 1
        /\ reqs[s].calls = 4 => reqs[s].pc = "done"
        /\ reqs[s].status = 200 => reqs[s].pc = "done" /\ reqs[s].body.success
        /\ reqs[s].status = 503 =>
               /\ reqs[s].calls = 4
               /\ reqs[s].slept = <<800, 1600, 3200>>
               /\ CarriesOverload(reqs[s].lastErr)
               /\ env.anthropicKey
        /\ reqs[s].status = 401 =>
               /\ 401 \in {reqs[s].lastErr.status, reqs[s].lastErr.responseStatus}
               /\ ~CarriesOverload(reqs[s].lastErr)
        /\ (reqs[s].pc = "done" /\ ~env.anthropicKey) =>
               reqs[s].status = 500 /\ reqs[s].calls = 0

\* a preview has ended with 503 after four calls and the three waits
C9_Witness ==
    \E s \in Previews :
        /\ reqs[s].pc = "done" /\ reqs[s].status = 503
        /\ reqs[s].calls = 4
        /\ reqs[s].slept = <<800, 1600, 3200>>

\* a preview has succeeded on its third call
C9_SuccessEndsRetries ==
    \E s \in Previews :
        /\ reqs[s].pc = "done" /\ reqs[s].status = 200
        /\ reqs[s].calls = 3 /\ reqs[s].slept = <<800, 1600>>

\* the gender the request in slot s must use: the provided one when it is
\* an allowed value, else the one the file's name yields
ExpectedGender(s) ==
    LET provided == Trim(OrElse(reqs[s].form.gender, ""))
    IN  IF provided \in {"male", "female", "transgender", "non-binary",
                        "transman", "transwoman"}
        THEN provided
        ELSE InferGenderFromFilename(reqs[s].dataSource)

\* the request in slot s has come to resolve its gender
GenderResolved(s) ==
    /\ reqs[s].checked /\ ~reqs[s].exists
    /\ reqs[s].kind = "preview" =>
           reqs[s].form.file.present /\ reqs[s].pc # "check"
    /\ reqs[s].kind = "confirm" =>
           reqs[s].form.mapping.valid /\ reqs[s].pc \notin {"check", "prepare"}

\* C10: the gender of a request is the provided gender when that is an
\* allowed value, else the one inferred from the file's name.  A request
\* that comes to resolve its gender and finds neither ends with 400:
\* preview without any proposer call, confirm without queueing or
\* forwarding a record.  Otherwise the resolved gender is the one handed to
\* the proposer and forced on every mapped row.
C10_GenderResolution ==
    \A s \in Slots :
        GenderResolved(s) =>
            LET g == ExpectedGender(s)
            IN  IF IsNullish(g)
                THEN /\ reqs[s].pc = "done"
                     /\ reqs[s].status = 400
                     /\ reqs[s].body.message = GenderMessage
                     /\ reqs[s].calls = 0
                     /\ reqs[s].modelsToUpsert = << >>
                     /\ reqs[s].chunks = << >>
                ELSE /\ reqs[s].inferredGender = g
                     /\ reqs[s].kind = "preview" =>
                            reqs[s].userPayload.provided.gender = g
                     /\ reqs[s].kind = "confirm" =>
                            \A i \in 1..Len(reqs[s].transformed) :
                                FieldOf(reqs[s].transformed[i].models, "gender") = g

\* a preview whose provided gender is not an allowed value and whose file
\* name yields none has ended with 400 without a proposer call
C10_Witness ==
    \E s \in Previews :
        /\ GenderResolved(s)
        /\ reqs[s].form.gender = "banana"
        /\ reqs[s].dataSource = "elite_models.csv"
        /\ reqs[s].pc = "done" /\ reqs[s].status = 400
        /\ reqs[s].calls = 0

\* a confirm without a provided gender whose file name yields none has
\* ended with 400 without forwarding a record
C10_ConfirmRejected ==
    \E s \in Confirms :
        /\ GenderResolved(s)
        /\ reqs[s].form.gender = Null
        /\ reqs[s].dataSource = "elite_models.csv"
        /\ reqs[s].pc = "done" /\ reqs[s].status = 400
        /\ reqs[s].chunks = << >>

\* a provided gender has won over the one the file's name yields
C10_ProvidedWins ==
    \E s \in Slots :
        /\ GenderResolved(s)
        /\ reqs[s].form.gender = "male"
        /\ reqs[s].dataSource = "women_agency.csv"
        /\ reqs[s].inferredGender = "male"

\* the gender of the file's name has replaced a provided value that is not
\* allowed
C10_NameFallback ==
    \E s \in Slots :
        /\ GenderResolved(s)
        /\ reqs[s].form.gender = "banana"
        /\ reqs[s].dataSource = "boys-teen-2024.csv"
        /\ reqs[s].inferredGender = "male"

(***************************************************************************)
(* The failure of the mapping parse (preview/route.ts, 523-536)            *)
(***************************************************************************)
\* the object recovered from the text declares a record of field mappings
\* and, its documented shorthands written out, fits the Mapping schema
DeclaresMapping(text) ==
    LET extracted == ExtractJsonObject(text)
    IN  /\ extracted.ok
        /\ extracted.value.t = "object"
        /\ JGet(extracted.value, "fieldMappings").t = "object"
        /\ SchemaFits(NormalizeMappingShape(extracted.value))

MappingTexts == { text \in ProposerTexts : DeclaresMapping(text) }

\* the preview in slot s has answered to a text of the proposer
Answered(s) ==
    /\ reqs[s].kind = "preview"
    /\ reqs[s].pc = "done"
    /\ reqs[s].raw # Null

\* the answer is the failure that carries the first 600 characters of the
\* text, and neither a mapping nor a sample preview
FailedWithSnippet(s) ==
    /\ reqs[s].status = 500
    /\ ~reqs[s].body.success
    /\ reqs[s].body.message = "Failed to parse mapping from Claude."
    /\ DOMAIN reqs[s].body.data = {"snippet"}
    /\ reqs[s].body.data.snippet = Take(reqs[s].raw, 600)

\* C11: a text of the proposer from which no JSON object is recovered, or
\* whose recovered object does not fit the Mapping schema, is answered by
\* the failure that carries the snippet; preview never falls back to an
\* empty or guessed mapping.
C11_NoFallbackMapping ==
    \A s \in Slots :
        (Answered(s) /\ reqs[s].raw \notin MappingTexts)
            => FailedWithSnippet(s)

\* the part of C11 that the code keeps: a text that the parser, the
\* normalizer or the schema refuses is answered by the failure that carries
\* the snippet, and a preview that succeeds reports the parsed mapping
C11_RefusedTextFails ==
    \A s \in Slots :
        Answered(s) =>
            IF ParsedOf(reqs[s].raw).ok
            THEN /\ reqs[s].status = 200
                 /\ reqs[s].body.data.mapping = ParsedOf(reqs[s].raw).mapping
            ELSE FailedWithSnippet(s)

\* a preview has answered with success and an empty mapping to a text whose
\* object declares no field mappings
C11_EmptyMappingReturned ==
    \E s \in Slots :
        /\ Answered(s)
        /\ reqs[s].raw = DocNoFields
        /\ reqs[s].status = 200
        /\ reqs[s].body.data.mapping.fieldMappings = << >>

(***************************************************************************)
(* Spec: requests that overlap on one store                                *)
(***************************************************************************)
MaxRequests == 2

ShortRow == << Cell("Name", "jo"), Cell("IG", ""), Cell("Gender", "f"),
               Cell("Pics", "") >>

\* confirms of one file name with two mappings
SharedConfirmForms ==
    { FormOf(FileOf("w.csv", <<ShortRow>>), "female",
             MappingStr(BasicMapping), "agency-1"),
      FormOf(FileOf("w.csv", <<ShortRow>>), "female",
             MappingStr(MediaMapping), "agency-1") }

\* a preview of the same file name, the file holding the header only
SharedPreviewForms ==
    { FormOf(FileOf("w.csv", << >>), "female", NoMappingStr, Null) }

SharedChunkOutcomes ==
    { ChunkOutcome("http", AllStored, "none"),
      ChunkOutcome("ok", AllStored, "full") }

SharedProposerOutcomes ==
    { Thrown(ErrorOf(529, 0, "overloaded_error", Undefined)),
      Message("text", DocShorthand) }

Configured == [anthropicKey |-> TRUE, supabase |-> TRUE]

Init ==
    /\ env = Configured
    /\ models = NoRows
    /\ reqs = [s \in 1..MaxRequests |-> IdleReq]
    /\ started = 0
    /\ IdleMapper
    /\ OtherIdle

Next ==
    \/ \E s \in 1..Len(reqs) : ConfirmStart(s, SharedConfirmForms)
    \/ \E s \in 1..Len(reqs) : ConfirmCheck(s, BOOLEAN)
    \/ \E s \in 1..Len(reqs) : ConfirmPrepare(s)
    \/ \E s \in 1..Len(reqs) : ConfirmSendBatch(s, SharedChunkOutcomes)
    \/ \E s \in 1..Len(reqs) : PreviewStart(s, SharedPreviewForms)
    \/ \E s \in 1..Len(reqs) : PreviewCheck(s, BOOLEAN)
    \/ \E s \in 1..Len(reqs) : PreviewCall(s, SharedProposerOutcomes)
    \/ \E s \in 1..Len(reqs) : PreviewSleep(s)

Spec == Init /\ [][Next]_vars

\* the confirm in slot b began after the confirm in slot a had reported
\* success, for the same file name, and has passed its validation
ConfirmedAgain(a, b) ==
    /\ a \in Confirms /\ b \in Confirms
    /\ a \in reqs[b].after
    /\ reqs[a].status = 200
    /\ reqs[b].dataSource = reqs[a].dataSource
    /\ reqs[b].pc = "done"

HasActed(s) ==
    \/ reqs[s].calls > 0
    \/ reqs[s].pc \in {"call", "sleep", "prepare", "batch"}
    \/ reqs[s].modelsToUpsert # << >>
    \/ reqs[s].chunks # << >>
    \/ reqs[s].status = 200

\* the request in slot s was rejected with 409 carrying its identifier,
\* without a proposer call and without forwarding
Rejected(s) ==
    /\ reqs[s].pc = "done"
    /\ reqs[s].status = 409
    /\ reqs[s].body.data.data_source = reqs[s].dataSource
    /\ reqs[s].calls = 0
    /\ reqs[s].chunks = << >>

C4_AtMostOneForwards ==
    \A a, b \in Slots :
        ( /\ a # b
          /\ reqs[a].kind = "confirm" /\ reqs[b].kind = "confirm"
          /\ reqs[a].dataSource = reqs[b].dataSource
          /\ reqs[a].queryOk /\ reqs[b].queryOk )
        => ~(reqs[a].succeeded > 0 /\ reqs[b].succeeded > 0)
(***************************************************************************)
(* The console (src/unnamed/part_001, component Home)                      *)
(*                                                                         *)
(* home holds the component's state and its two refs.  An asynchronous     *)
(* handler that awaits a response is a record of pending: it keeps the     *)
(* values its closure captured when it was called, and the step that       *)
(* receives the response (await fetch, await resp.json(), then the rest of *)
(* the handler, which awaits nothing else) is one action.  log is the      *)
(* sequence of the requests the console has issued.                        *)
(***************************************************************************)
NullFile == [present |-> FALSE, name |-> "", type |-> ""]
FileNamed(name, type) == [present |-> TRUE, name |-> name, type |-> type]

NullPreview == [present |-> FALSE, mapping |-> "", data_source |-> ""]
\* json.data of a successful preview: data.mapping and
\* data.inferred.data_source, the name of the file it was proposed for
PreviewData(mapping, dataSource) ==
    [present |-> TRUE, mapping |-> mapping, data_source |-> dataSource]

\* the mapping that the preview route proposes for the file of a request:
\* it is made from the headers and rows of that file
ProposedFor(proposal, file) == proposal \o " for " \o file

NullResult == [present |-> FALSE, success |-> FALSE, message |-> ""]
UploadResult(success, message) ==
    [present |-> TRUE, success |-> success, message |-> message]

NullConflict == [exists |-> FALSE, data_source |-> ""]
Conflict(dataSource) == [exists |-> TRUE, data_source |-> dataSource]

NullSuggestions == [present |-> FALSE, items |-> << >>]
Suggestions(items) == [present |-> TRUE, items |-> items]

InitialHome ==
    [file |-> NullFile, isUploading |-> FALSE, uploadResult |-> NullResult,
     preview |-> NullPreview, isConfirming |-> FALSE,
     agencySuggestions |-> NullSuggestions, selectedAgencyId |-> Null,
     selectedGender |-> Null, showGenderPicker |-> FALSE,
     isSuggestingAgency |-> FALSE, isRegenerating |-> FALSE,
     pendingModelIds |-> << >>, showCvPrompt |-> FALSE,
     isInferring |-> FALSE, inferenceLogs |-> << >>,
     cancelCvRef |-> FALSE, abortControllerRef |-> Null,
     dataSourceConflict |-> NullConflict]

\* a request of the console: fetch(url, { body })
Request(url, file, mapping, modelId) ==
    [url |-> url, file |-> file, mapping |-> mapping, model_id |-> modelId]

\* a handler that awaits the response to the request it issued
Awaiting(handler, file, ids, i) ==
    [handler |-> handler, file |-> file, ids |-> ids, i |-> i,
     aborted |-> FALSE]

\* the response a handler receives: fetch or resp.json() throws, or the
\* status and the fields of the body
NetworkError == [thrown |-> TRUE, status |-> 0, success |-> Undefined,
                 exists |-> FALSE, ids |-> << >>, suggestions |-> << >>,
                 bodyStatus |-> 0]
Response(status, success, exists, ids, suggestions) ==
    [thrown |-> FALSE, status |-> status, success |-> success,
     exists |-> exists, ids |-> ids, suggestions |-> suggestions,
     bodyStatus |-> 0]
\* the body of /api/ingest/cv-infer carries a status of its own, or none (0)
CvResponse(status, success, bodyStatus) ==
    [Response(status, success, FALSE, << >>, << >>) EXCEPT
        !.bodyStatus = bodyStatus]

\* resp.ok
Ok(resp) == resp.status >= 200 /\ resp.status <= 299

\* json?.success is truthy
Succeeded(resp) == resp.success = "true"

IncludesAny(s, words) == \E w \in words : Includes(s, w)

\* /a[-_\s]?b/.test(s)
IncludesJoined(s, a, b) ==
    IncludesAny(s, { a \o sep \o b : sep \in {"", "-", "_"} \cup WhiteSpace })

\* the gender the console guesses from the lower-cased name of the file
GuessGender(lower) ==
    IF IncludesAny(lower, {"transman", "trans_man"}) THEN "transman"
    ELSE IF IncludesAny(lower, {"transwoman", "trans_woman"}) THEN "transwoman"
    ELSE IF Includes(lower, "transgender") \/ HasWord(lower, "trans")
    THEN "transgender"
    ELSE IF \/ IncludesJoined(lower, "non", "binary")
            \/ HasWord(lower, "nb")
            \/ IncludesJoined(lower, "x", "division")
            \/ Includes(lower, "enby")
    THEN "non-binary"
    ELSE IF IncludesAny(lower, {"female", "women", "womens", "woman", "womxn",
                                "girls", "girl", "ladies", "lady"})
    THEN "female"
    ELSE IF IncludesAny(lower, {"male", "men", "mens", "man", "boys", "boy",
                                "guys", "gentlemen", "gentleman", "gents"})
    THEN "male"
    ELSE Null

\* the files the user selects
ConsoleFiles ==
    { FileNamed("women.csv", "text/csv"), FileNamed("list.csv", ""),
      FileNamed("notes.txt", "text/plain") }

\* the guess for each of them, worked out once
GuessedGenders ==
    { <<f.name, GuessGender(ToLowerCase(f.name))>> : f \in ConsoleFiles }
GuessOf(name) == (CHOOSE g \in GuessedGenders : g[1] = name)[2]

ConflictMessageOfConsole(conflict) ==
    "This file has already been processed (" \o conflict.data_source
        \o "). Delete it first to reprocess."

\* the requests that the handlers of the user's clicks have issued
UserRequests ==
    Cardinality({ i \in 1..Len(log) : log[i].url # "/api/ingest/cv-infer" })

MaxFetches == 6

\* a click may still issue a request
Room == UserRequests < MaxFetches

\* the console issues request and handler awaits its response
Issue(request, handler) ==
    /\ log' = Append(log, request)
    /\ pending' = pending \cup {handler}

\* handleFileSelect, with the call of checkDataSource that ends it
HandleFileSelect(selectedFile) ==
    /\ Room
    /\ IF selectedFile.type = "text/csv" \/ EndsWith(selectedFile.name, ".csv")
       THEN /\ home' = [home EXCEPT
                  !.file = selectedFile,
                  !.uploadResult = NullResult,
                  !.preview = NullPreview,
                  !.selectedAgencyId = Null,
                  !.agencySuggestions = NullSuggestions,
                  !.selectedGender = GuessOf(selectedFile.name),
                  !.showGenderPicker = (GuessOf(selectedFile.name) = Null)]
            /\ Issue(Request("/api/ingest/check", selectedFile.name, "", ""),
                     Awaiting("checkDataSource", selectedFile.name, << >>, 0))
       ELSE /\ home' = [home EXCEPT !.uploadResult =
                            UploadResult(FALSE, "Please select a valid CSV file")]
            /\ UNCHANGED <<pending, log>>
    /\ UNCHANGED ingestVars
    /\ UNCHANGED db

\* the rest of checkDataSource, once the response has arrived
CheckDataSourceResponds(task, resp) ==
    /\ task.handler = "checkDataSource"
    /\ home' = [home EXCEPT !.dataSourceConflict =
           IF ~resp.thrown /\ Ok(resp) /\ Succeeded(resp) /\ resp.exists
           THEN Conflict(task.file) ELSE NullConflict]
    /\ pending' = pending \ {task}
    /\ UNCHANGED <<ingestVars, db, log>>

\* the select of the gender picker: onChange
SelectGender(v) ==
    /\ home.showGenderPicker
    /\ home' = [home EXCEPT !.selectedGender = v,
                            !.showGenderPicker = (v = Null)]
    /\ UNCHANGED <<ingestVars, pending, db, log>>

\* handleSuggestAgencies: the button is disabled without a file and while a
\* suggestion is awaited
HandleSuggestAgencies ==
    /\ Room
    /\ home.file.present
    /\ ~home.isSuggestingAgency
    /\ home' = [home EXCEPT !.isSuggestingAgency = TRUE]
    /\ Issue(Request("/api/agencies/suggest", home.file.name, "", ""),
             Awaiting("fetchAgencySuggestions", home.file.name, << >>, 0))
    /\ UNCHANGED <<ingestVars, db>>

\* the rest of fetchAgencySuggestions
SuggestAgenciesResponds(task, resp) ==
    /\ task.handler = "fetchAgencySuggestions"
    /\ home' = [home EXCEPT
           !.agencySuggestions =
               IF resp.thrown \/ ~Ok(resp) \/ ~Succeeded(resp)
               THEN Suggestions(<< >>) ELSE Suggestions(resp.suggestions),
           !.isSuggestingAgency = FALSE]
    /\ pending' = pending \ {task}
    /\ UNCHANGED <<ingestVars, db, log>>

\* the radio button of a suggested agency: onChange
SelectAgency ==
    /\ home.agencySuggestions.present
    /\ \E i \in 1..Len(home.agencySuggestions.items) :
           home' = [home EXCEPT
                        !.selectedAgencyId = home.agencySuggestions.items[i]]
    /\ UNCHANGED <<ingestVars, pending, db, log>>

\* handleSubmit up to its request; the button is disabled without a file
\* and while a preview is awaited
HandleSubmit ==
    /\ Room
    /\ home.file.present
    /\ ~home.isUploading
    /\ IF home.dataSourceConflict.exists
       THEN /\ home' = [home EXCEPT !.uploadResult = UploadResult(FALSE,
                            ConflictMessageOfConsole(home.dataSourceConflict))]
            /\ UNCHANGED <<pending, log>>
       ELSE IF home.selectedAgencyId = Null
       THEN /\ home' = [home EXCEPT !.uploadResult = UploadResult(FALSE,
                  "Please select or create an agency before continuing.")]
            /\ UNCHANGED <<pending, log>>
       ELSE IF home.selectedGender = Null
       THEN /\ home' = [home EXCEPT !.uploadResult = UploadResult(FALSE,
                            "Please select a gender before continuing.")]
            /\ UNCHANGED <<pending, log>>
       ELSE /\ home' = [home EXCEPT !.isUploading = TRUE,
                                    !.uploadResult = NullResult]
            /\ Issue(Request("/api/ingest/preview", home.file.name, "", ""),
                     Awaiting("handleSubmit", home.file.name, << >>, 0))
    /\ UNCHANGED <<ingestVars, db>>

\* the conflict a 409 leaves in the console
AfterStatus(h, resp, file) ==
    IF ~resp.thrown /\ resp.status = 409
    THEN [h EXCEPT !.dataSourceConflict = Conflict(file)]
    ELSE h

\* the rest of handleSubmit
SubmitResponds(task, resp, mapping) ==
    /\ task.handler = "handleSubmit"
    /\ home' =
         IF resp.thrown
         THEN [home EXCEPT !.isUploading = FALSE,
                  !.uploadResult = UploadResult(FALSE,
                      "Network error. Please check your connection and try again.")]
         ELSE IF ~Ok(resp) \/ ~Succeeded(resp)
         THEN [AfterStatus(home, resp, task.file) EXCEPT
                  !.isUploading = FALSE,
                  !.uploadResult = UploadResult(FALSE,
                      "Failed to prepare preview mapping.")]
         ELSE [home EXCEPT
                  !.isUploading = FALSE,
                  !.preview = PreviewData(ProposedFor(mapping, task.file),
                                          task.file),
                  !.uploadResult = UploadResult(TRUE,
                      "Preview ready. Review and confirm to upsert.")]
    /\ pending' = pending \ {task}
    /\ UNCHANGED <<ingestVars, db, log>>

\* handleRegenerate up to its request; its button is shown with the preview
\* and is disabled while a regeneration is awaited
HandleRegenerate ==
    /\ Room
    /\ home.preview.present
    /\ ~home.isRegenerating
    /\ home.file.present
    /\ home' = [home EXCEPT !.isRegenerating = TRUE]
    /\ Issue(Request("/api/ingest/preview", home.file.name,
                     home.preview.mapping, ""),
             Awaiting("handleRegenerate", home.file.name, << >>, 0))
    /\ UNCHANGED <<ingestVars, db>>

\* the rest of handleRegenerate
RegenerateResponds(task, resp, mapping) ==
    /\ task.handler = "handleRegenerate"
    /\ home' =
         IF resp.thrown
         THEN [home EXCEPT !.isRegenerating = FALSE,
                  !.uploadResult =
                      UploadResult(FALSE, "Network error during regeneration.")]
         ELSE IF ~Ok(resp) \/ ~Succeeded(resp)
         THEN [home EXCEPT !.isRegenerating = FALSE,
                  !.uploadResult =
                      UploadResult(FALSE, "Failed to regenerate mapping")]
         ELSE [home EXCEPT
                  !.isRegenerating = FALSE,
                  !.preview = PreviewData(ProposedFor(mapping, task.file),
                                          task.file),
                  !.uploadResult = UploadResult(TRUE,
                      "Mapping regenerated using your feedback.")]
    /\ pending' = pending \ {task}
    /\ UNCHANGED <<ingestVars, db, log>>

\* handleConfirm up to its request; its button is shown with the preview
\* and is disabled while a confirm is awaited and without an agency
HandleConfirm ==
    /\ Room
    /\ home.preview.present
    /\ ~home.isConfirming
    /\ home.selectedAgencyId # Null
    /\ IF ~home.file.present \/ ~home.preview.present
       THEN UNCHANGED <<home, pending, log>>
       ELSE IF home.dataSourceConflict.exists
       THEN /\ home' = [home EXCEPT !.uploadResult = UploadResult(FALSE,
                            ConflictMessageOfConsole(home.dataSourceConflict))]
            /\ UNCHANGED <<pending, log>>
       ELSE IF home.selectedGender = Null
       THEN /\ home' = [home EXCEPT !.uploadResult = UploadResult(FALSE,
                            "Please select a gender before upserting.")]
            /\ UNCHANGED <<pending, log>>
       ELSE /\ home' = [home EXCEPT !.isConfirming = TRUE]
            /\ Issue(Request("/api/ingest/upsert", home.file.name,
                             home.preview.mapping, ""),
                     Awaiting("handleConfirm", home.file.name, << >>, 0))
    /\ UNCHANGED <<ingestVars, db>>

\* the rest of handleConfirm
ConfirmResponds(task, resp) ==
    /\ task.handler = "handleConfirm"
    /\ home' =
         IF resp.thrown
         THEN [home EXCEPT !.isConfirming = FALSE,
                  !.uploadResult = UploadResult(FALSE,
                      "Upsert failed due to network or server error.")]
         ELSE LET h == [AfterStatus(home, resp, task.file) EXCEPT
                           !.isConfirming = FALSE,
                           !.uploadResult = UploadResult(Succeeded(resp),
                               IF Succeeded(resp) THEN "Upsert complete."
                               ELSE "Upsert failed.")]
              IN  IF Succeeded(resp) /\ Len(resp.ids) > 0
                  THEN [h EXCEPT !.pendingModelIds = resp.ids,
                                 !.showCvPrompt = TRUE]
                  ELSE h
    /\ pending' = pending \ {task}
    /\ UNCHANGED <<ingestVars, db, log>>

\* one entry of inferenceLogs; error is the data.error of a failed call
InferenceLog(modelId, success, status, error) ==
    [modelId |-> modelId, success |-> success, status |-> status,
     error |-> error]

\* a faulty variant: the loop never looks at the cancel flag
SweepFromMutNoCancel(h, ids, i) ==
    IF i > Len(ids)
    THEN /\ home' = [h EXCEPT !.isInferring = FALSE]
         /\ log' = log
         /\ pending' = { t \in pending : t.handler # "runCvInference" }
    ELSE /\ home' = [h EXCEPT !.abortControllerRef = "controller"]
         /\ log' = Append(log, Request("/api/ingest/cv-infer", "", "", ids[i]))
         /\ pending' = { t \in pending : t.handler # "runCvInference" }
                          \cup {Awaiting("runCvInference", "", ids, i)}

\* the loop of runCvInference from the entry of iteration i: it breaks on
\* the cancel flag, else it issues the request for ids[i]; after the loop
\* the running flag is cleared
SweepFrom(h, ids, i) ==
    IF i > Len(ids) \/ h.cancelCvRef
    THEN /\ home' = [h EXCEPT !.isInferring = FALSE]
         /\ log' = log
         /\ pending' = { t \in pending : t.handler # "runCvInference" }
    ELSE /\ home' = [h EXCEPT !.abortControllerRef = "controller"]
         /\ log' = Append(log, Request("/api/ingest/cv-infer", "", "", ids[i]))
         /\ pending' = { t \in pending : t.handler # "runCvInference" }
                          \cup {Awaiting("runCvInference", "", ids, i)}

\* the click on "Yes, start CV inference" and runCvInference up to its
\* first request
RunCvInference ==
    /\ home.showCvPrompt
    /\ Len(home.pendingModelIds) > 0
    /\ ~home.isInferring
    /\ SweepFrom([home EXCEPT !.showCvPrompt = FALSE,
                              !.isInferring = TRUE,
                              !.inferenceLogs = << >>,
                              !.cancelCvRef = FALSE],
                 home.pendingModelIds, 1)
    /\ UNCHANGED <<ingestVars, db>>

\* the click on "No, not now"
DeclineCvInference ==
    /\ home.showCvPrompt
    /\ Len(home.pendingModelIds) > 0
    /\ ~home.isInferring
    /\ home' = [home EXCEPT !.showCvPrompt = FALSE]
    /\ UNCHANGED <<ingestVars, pending, db, log>>

\* json?.success ?? resp.ok
LoggedSuccess(resp) ==
    IF IsNullish(resp.success) THEN Ok(resp) ELSE resp.success = "true"

\* json?.status ?? resp.status
LoggedStatus(resp) ==
    IF resp.bodyStatus # 0 THEN resp.bodyStatus ELSE resp.status

\* the response to the request of iteration task.i arrives: the try block
\* or, when fetch or resp.json() throws, the catch block; then finally and
\* the next iteration
CvInferResponds(task, resp) ==
    /\ task.handler = "runCvInference"
    /\ ~task.aborted
    /\ SweepFrom([home EXCEPT
                     !.inferenceLogs = Append(@,
                         IF resp.thrown
                         THEN InferenceLog(task.ids[task.i], FALSE, 0,
                                           "network error")
                         ELSE InferenceLog(task.ids[task.i],
                                           LoggedSuccess(resp),
                                           LoggedStatus(resp), Null)),
                     !.abortControllerRef = Null],
                 task.ids, task.i + 1)
    /\ UNCHANGED <<ingestVars, db>>

\* the aborted request throws an AbortError: the catch block, then finally
\* and the next iteration
CvInferAborted(task) ==
    /\ task.handler = "runCvInference"
    /\ task.aborted
    /\ SweepFrom([home EXCEPT
                     !.inferenceLogs = Append(@,
                         InferenceLog(task.ids[task.i], FALSE, 0, "aborted")),
                     !.abortControllerRef = Null],
                 task.ids, task.i + 1)
    /\ UNCHANGED <<ingestVars, db>>

\* cancelCvInference: the Cancel button is shown while the sweep runs
CancelCvInference ==
    /\ home.isInferring
    /\ home' = [home EXCEPT !.cancelCvRef = TRUE]
    /\ pending' =
           IF home.abortControllerRef # Null
           THEN { IF t.handler = "runCvInference"
                  THEN [t EXCEPT !.aborted = TRUE] ELSE t : t \in pending }
           ELSE pending
    /\ UNCHANGED <<ingestVars, db, log>>

(***************************************************************************)
(* SpecConsole: one session of the console; SpecSweep: one enrichment      *)
(* sweep after a confirm that returned model ids                           *)
(***************************************************************************)
PickedGenders == {"male", Null}

CheckResponses ==
    { Response(200, "true", TRUE, << >>, << >>),
      Response(200, "true", FALSE, << >>, << >>),
      NetworkError }

SuggestResponses ==
    { Response(200, "true", FALSE, << >>, <<"7">>),
      Response(500, "false", FALSE, << >>, << >>) }

PreviewResponses ==
    { Response(200, "true", FALSE, << >>, << >>),
      Response(409, "false", FALSE, << >>, << >>),
      NetworkError }

ProposedMappings == {"mapping 1"}

UpsertResponses ==
    { Response(200, "true", FALSE, <<"11", "12">>, << >>),
      Response(200, "true", FALSE, << >>, << >>),
      Response(409, "false", FALSE, << >>, << >>),
      NetworkError }

CvResponses ==
    { CvResponse(200, "true", 200), CvResponse(200, "true", 0),
      CvResponse(200, "false", 500), CvResponse(500, "false", 0),
      CvResponse(502, Undefined, 0), NetworkError }

ConsoleInit ==
    /\ home = InitialHome
    /\ pending = {}
    /\ log = << >>
    /\ db = Null
    /\ env = Configured
    /\ models = NoRows
    /\ reqs = << >>
    /\ started = 0
    /\ IdleMapper

SweepNext ==
    \/ RunCvInference
    \/ DeclineCvInference
    \/ \E task \in pending : \E resp \in CvResponses :
           CvInferResponds(task, resp)
    \/ \E task \in pending : CvInferAborted(task)
    \/ CancelCvInference

ConsoleNext ==
    \/ \E selectedFile \in ConsoleFiles : HandleFileSelect(selectedFile)
    \/ \E task \in pending : \E resp \in CheckResponses :
           CheckDataSourceResponds(task, resp)
    \/ \E v \in PickedGenders : SelectGender(v)
    \/ HandleSuggestAgencies
    \/ \E task \in pending : \E resp \in SuggestResponses :
           SuggestAgenciesResponds(task, resp)
    \/ SelectAgency
    \/ HandleSubmit
    \/ \E task \in pending : \E resp \in PreviewResponses :
           \E mapping \in ProposedMappings :
               SubmitResponds(task, resp, mapping)
    \/ HandleRegenerate
    \/ \E task \in pending : \E resp \in PreviewResponses :
           \E mapping \in ProposedMappings :
               RegenerateResponds(task, resp, mapping)
    \/ HandleConfirm
    \/ \E task \in pending : \E resp \in UpsertResponses :
           ConfirmResponds(task, resp)

SpecConsole == ConsoleInit /\ [][ConsoleNext]_vars

\* the console after a confirm that returned the ids of the stored models
MaxIds == 3

ModelIds(n) == [i \in 1..n |-> ToString(10 + i)]

AfterConfirm(ids) ==
    [InitialHome EXCEPT
        !.file = FileNamed("women.csv", "text/csv"),
        !.preview = PreviewData(ProposedFor("mapping 1", "women.csv"),
                                "women.csv"),
        !.selectedAgencyId = "7",
        !.agencySuggestions = Suggestions(<<"7">>),
        !.selectedGender = "female",
        !.uploadResult = UploadResult(TRUE, "Upsert complete."),
        !.pendingModelIds = ids,
        !.showCvPrompt = TRUE]

SweepInit ==
    /\ home \in { AfterConfirm(ModelIds(n)) : n \in 1..MaxIds }
    /\ pending = {}
    /\ log = << >>
    /\ db = Null
    /\ env = Configured
    /\ models = NoRows
    /\ reqs = << >>
    /\ started = 0
    /\ IdleMapper

SpecSweep == SweepInit /\ [][SweepNext]_vars

\* the request in flight is answered or fails, and the continuation of
\* runCvInference runs
SweepProgress ==
    \/ \E task \in pending : \E resp \in CvResponses :
           CvInferResponds(task, resp)
    \/ \E task \in pending : CvInferAborted(task)

SpecSweepFair == SpecSweep /\ WF_vars(SweepProgress)

(***************************************************************************)
(* Properties of the console                                               *)
(***************************************************************************)
UpsertRequests == { i \in 1..Len(log) : log[i].url = "/api/ingest/upsert" }

\* C12: per upload the console goes from the selected file to a proposed
\* and previewed mapping and only then to the confirm: every confirm
\* request carries the selected file together with a mapping that was
\* proposed for that file.
C12_ConfirmCarriesPreviewOfFile ==
    \A i \in UpsertRequests :
        \E proposal \in ProposedMappings :
            log[i].mapping = ProposedFor(proposal, log[i].file)

\* the step issues a request to url
Issues(url) ==
    /\ Len(log') = Len(log) + 1
    /\ log'[Len(log')].url = url

\* the parts of C12 that the code keeps: the selection of a file discards
\* the held preview, and a confirm request is issued only while a file, a
\* preview, a gender and an agency are held and no conflict is known
C12_SelectDiscardsPreview ==
    [][ /\ Issues("/api/ingest/check") => ~home'.preview.present
        /\ Issues("/api/ingest/upsert") =>
              /\ home.file.present
              /\ home.preview.present
              /\ home.selectedGender # Null
              /\ home.selectedAgencyId # Null
              /\ ~home.dataSourceConflict.exists
              /\ log'[Len(log')].file = home.file.name
              /\ log'[Len(log')].mapping = home.preview.mapping ]_vars

\* a confirm request has carried list.csv with a mapping proposed for
\* women.csv
C12_ConfirmWithPreviewOfOtherFile ==
    \E i \in UpsertRequests :
        /\ log[i].file = "list.csv"
        /\ log[i].mapping = ProposedFor("mapping 1", "women.csv")

(***************************************************************************)
(* Properties of the enrichment sweep                                      *)
(***************************************************************************)
Cancelled == home.isInferring /\ home.cancelCvRef

\* C13: once the user has cancelled a running sweep, no request for a
\* further model id is started and the cancel flag stays set, and the
\* sweep ends with the running flag cleared.
C13_CancelStopsSweep ==
    /\ [][Cancelled => (log' = log /\ home'.cancelCvRef)]_vars
    /\ (Cancelled ~> ~home.isInferring)

\* a cancelled sweep has ended before the last of three model ids
C13_Witness ==
    /\ ~home.isInferring
    /\ home.cancelCvRef
    /\ Len(home.pendingModelIds) = 3
    /\ Len(log) = 2
    /\ Len(home.inferenceLogs) = 2

\* C14: the call in flight when the sweep is cancelled is not aborted, and
\* the entry recorded for it is the outcome of its response.
C14_InFlightCallCompletes ==
    /\ \A task \in pending : ~task.aborted
    /\ \A i \in 1..Len(home.inferenceLogs) :
           home.inferenceLogs[i].error # "aborted"

\* the call in flight for the first id was aborted by the cancel and is
\* recorded as a failure with status 0
C14_AbortRecorded ==
    /\ home.cancelCvRef
    /\ Len(home.inferenceLogs) = 1
    /\ home.inferenceLogs[1] = InferenceLog("11", FALSE, 0, "aborted")

(***************************************************************************)
(* The enrichment action: POST of cv-infer/route.ts for one model id, and  *)
(* POST of src/unnamed/part_006 with its processOne for a list of ids.     *)
(*                                                                         *)
(* db.models maps a model id to its row and db.models_media to the number  *)
(* of its media rows.  A request is a record of pending; log is the        *)
(* sequence of the starts and ends of the calls to the enrichment service. *)
(***************************************************************************)
ModelRow(cvInfer, modelName, instagramAccount) ==
    [present |-> TRUE, cv_infer |-> cvInfer, model_name |-> modelName,
     instagram_account |-> instagramAccount]

\* maybeSingle() found no row
NoModelRow ==
    [present |-> FALSE, cv_infer |-> FALSE, model_name |-> Null,
     instagram_account |-> Null]

\* the outcome of a call to the enrichment service: fetch throws, or the
\* status of its response
ServiceThrows == [thrown |-> TRUE, status |-> 0]
ServiceStatus(status) == [thrown |-> FALSE, status |-> status]
NotCalled == [thrown |-> FALSE, status |-> -1]

CallStart(name, modelId) ==
    [call |-> name, model_id |-> modelId, phase |-> "start",
     outcome |-> NotCalled]
CallEnd(name, modelId, outcome) ==
    [call |-> name, model_id |-> modelId, phase |-> "end",
     outcome |-> outcome]

\* what the action reports for one model id: the body of the response of
\* cv-infer/route.ts, or the value processOne returns
Result(modelId, success, skipped, note, status, didModel, didPhotos) ==
    [model_id |-> modelId, success |-> success, skipped |-> skipped,
     note |-> note, status |-> status,
     didUpdateModel |-> didModel, didUpdatePhotos |-> didPhotos]

Failure(modelId, message) ==
    Result(modelId, FALSE, FALSE, message, 0, FALSE, FALSE)

Skipped(modelId, reason) ==
    Result(modelId, TRUE, TRUE, reason, 0, FALSE, FALSE)

CvRequest(route, ids) ==
    [route |-> route, ids |-> ids, i |-> 1, pc |-> "start",
     modelRow |-> NoModelRow, first |-> NotCalled, didUpdateModel |-> FALSE,
     results |-> << >>, httpStatus |-> 0, success |-> FALSE]

\* return NextResponse.json(..., { status }) of cv-infer/route.ts
CvRespond(p, httpStatus, result) ==
    [p EXCEPT !.pc = "done", !.httpStatus = httpStatus,
              !.success = result.success, !.results = <<result>>]

\* results.push(await processOne(id)) of part_006, then the next id or the
\* response
Push(p, result) ==
    IF p.i < Len(p.ids)
    THEN [p EXCEPT !.results = Append(@, result), !.i = @ + 1,
                   !.pc = "model", !.modelRow = NoModelRow,
                   !.first = NotCalled, !.didUpdateModel = FALSE]
    ELSE [p EXCEPT !.results = Append(@, result), !.pc = "done",
                   !.httpStatus = 200,
                   !.success = IF Len(p.ids) = 1 THEN result.success ELSE TRUE]

\* the record is reported: as the response of cv-infer/route.ts, or as the
\* value of processOne
Report(p, httpStatus, result) ==
    IF p.route = "cv-infer" THEN CvRespond(p, httpStatus, result)
    ELSE Push(p, result)

\* String(v).trim() === '' or !v
Empty(v) == IsNullish(v) \/ Trim(v) = ""

\* the request is accepted: the checks of the body and of the environment
CvStart(request) ==
    /\ pending = {}
    /\ pending' =
         { IF Len(request.ids) = 0
           THEN [request EXCEPT !.pc = "done", !.httpStatus = 400]
           ELSE IF ~env.supabase
           THEN [request EXCEPT !.pc = "done", !.httpStatus = 500]
           ELSE [request EXCEPT !.pc = "model"] }
    /\ UNCHANGED <<ingestVars, home, db, log>>

\* the row of the model has been read: supabase.from('models')...maybeSingle()
CvFetchModel(p, queryOk) ==
    /\ p.pc = "model"
    /\ LET modelId == p.ids[p.i]
           modelRow == db.models[modelId]
       IN  pending' = (pending \ {p}) \cup
             { IF ~queryOk
               THEN Report(p, 500, Failure(modelId, "Failed to fetch model"))
               ELSE IF ~modelRow.present
               THEN Report(p, 404, Failure(modelId, "Model not found"))
               ELSE IF p.route = "cv-infer" /\ modelRow.cv_infer
               THEN Report(p, 200, Skipped(modelId, "cv_infer already TRUE"))
               ELSE IF /\ p.route = "part_006"
                       /\ Empty(modelRow.model_name)
                       /\ Empty(modelRow.instagram_account)
               THEN Report(p, 200, Skipped(modelId,
                               "no model_name and no instagram_account"))
               ELSE [p EXCEPT !.pc = "media", !.modelRow = modelRow] }
    /\ UNCHANGED <<ingestVars, home, db, log>>

\* the media rows of the model have been counted; the first call to the
\* enrichment service starts: update_model, or update_model_photos when
\* processOne finds cv_infer true
CvCountMedia(p, queryOk) ==
    /\ p.pc = "media"
    /\ LET modelId == p.ids[p.i]
       IN  IF ~queryOk
           THEN /\ pending' = (pending \ {p}) \cup
                      {Report(p, 500, Failure(modelId, "Failed to check medias"))}
                /\ log' = log
           ELSE IF db.models_media[modelId] = 0
           THEN /\ pending' = (pending \ {p}) \cup
                      {Report(p, 200, Skipped(modelId, "no medias for model"))}
                /\ log' = log
           ELSE IF p.route = "part_006" /\ p.modelRow.cv_infer
           THEN /\ pending' = (pending \ {p}) \cup {[p EXCEPT !.pc = "photos"]}
                /\ log' = Append(log, CallStart("update_model_photos", modelId))
           ELSE /\ pending' = (pending \ {p}) \cup {[p EXCEPT !.pc = "update"]}
                /\ log' = Append(log, CallStart("update_model", modelId))
    /\ UNCHANGED <<ingestVars, home, db>>

\* the call of update_model has ended; cv-infer/route.ts lets a thrown
\* failure reach its outer catch, processOne swallows it
CvUpdateModelEnds(p, outcome) ==
    /\ p.pc = "update"
    /\ LET modelId == p.ids[p.i]
       IN  IF p.route = "cv-infer" /\ outcome.thrown
           THEN /\ pending' = (pending \ {p}) \cup
                      {CvRespond(p, 500, Failure(modelId, "Internal error"))}
                /\ log' = Append(log, CallEnd("update_model", modelId, outcome))
           ELSE /\ pending' = (pending \ {p}) \cup
                      {[p EXCEPT !.pc = "photos", !.first = outcome,
                                 !.didUpdateModel =
                                     (~outcome.thrown /\ Ok(outcome))]}
                /\ log' = Append(Append(log,
                              CallEnd("update_model", modelId, outcome)),
                              CallStart("update_model_photos", modelId))
    /\ UNCHANGED <<ingestVars, home, db>>

\* the call of update_model_photos has ended, and the record is reported
CvUpdatePhotosEnds(p, outcome) ==
    /\ p.pc = "photos"
    /\ LET modelId == p.ids[p.i]
       IN  /\ pending' = (pending \ {p}) \cup
             { IF p.route = "cv-infer"
               THEN CvRespond(p, 200,
                        Result(modelId, Ok(p.first), FALSE, "", p.first.status,
                               FALSE, FALSE))
               ELSE Push(p, Result(modelId, TRUE, FALSE, "", 0,
                                   p.didUpdateModel,
                                   ~outcome.thrown /\ Ok(outcome))) }
           /\ log' = Append(log, CallEnd("update_model_photos", modelId, outcome))
    /\ UNCHANGED <<ingestVars, home, db>>

(***************************************************************************)
(* SpecCvInfer: one request to either enrichment action                    *)
(***************************************************************************)
CvModelIds == {"11", "12"}

RowKinds ==
    { NoModelRow, ModelRow(TRUE, "jo", "@jo"), ModelRow(FALSE, "jo", Null),
      ModelRow(FALSE, " ", Null) }

MediaCounts == {0, 2}

CvStores == [models : [CvModelIds -> RowKinds],
             models_media : [CvModelIds -> MediaCounts]]

CvRequests ==
    { CvRequest("cv-infer", <<"11">>), CvRequest("cv-infer", << >>),
      CvRequest("part_006", <<"11">>), CvRequest("part_006", <<"12", "11">>),
      CvRequest("part_006", << >>) }

ServiceOutcomes == { ServiceStatus(200), ServiceStatus(500), ServiceThrows }

CvInit ==
    /\ db \in CvStores
    /\ pending = {}
    /\ log = << >>
    /\ home = Null
    /\ env \in { Configured, [anthropicKey |-> TRUE, supabase |-> FALSE] }
    /\ models = NoRows
    /\ reqs = << >>
    /\ started = 0
    /\ IdleMapper

CvNext ==
    \/ \E request \in CvRequests : CvStart(request)
    \/ \E p \in pending : \E queryOk \in BOOLEAN : CvFetchModel(p, queryOk)
    \/ \E p \in pending : \E queryOk \in BOOLEAN : CvCountMedia(p, queryOk)
    \/ \E p \in pending : \E outcome \in ServiceOutcomes :
           CvUpdateModelEnds(p, outcome)
    \/ \E p \in pending : \E outcome \in ServiceOutcomes :
           CvUpdatePhotosEnds(p, outcome)

SpecCvInfer == CvInit /\ [][CvNext]_vars

(***************************************************************************)
(* Properties of the enrichment action                                     *)
(***************************************************************************)
\* the record of modelId is one that the spec wants skipped
SkipCondition(modelId) ==
    /\ db.models[modelId].present
    /\ db.models[modelId].cv_infer \/ db.models_media[modelId] = 0

ReadFailed(result) ==
    result.note \in {"Failed to fetch model", "Failed to check medias"}

\* the positions of log that hold the start or the end of a call for modelId
Calls(name, modelId, phase) ==
    { i \in 1..Len(log) : /\ log[i].call = name
                          /\ log[i].model_id = modelId
                          /\ log[i].phase = phase }

\* C15: for a record whose cv_infer is already true, or that has no media
\* row, no call to the enrichment service is made and, its reads having
\* succeeded, the record is reported as skipped.
C15_SkippedRecordsMakeNoCall ==
    /\ \A i \in 1..Len(log) : ~SkipCondition(log[i].model_id)
    /\ \A p \in pending : \A k \in 1..Len(p.results) :
           (SkipCondition(p.results[k].model_id) /\ ~ReadFailed(p.results[k]))
               => p.results[k].skipped

\* what C15 says holds of cv-infer/route.ts
C15_RouteSkips ==
    \A p \in pending :
        p.route = "cv-infer" =>
            /\ \A i \in 1..Len(log) : ~SkipCondition(log[i].model_id)
            /\ \A k \in 1..Len(p.results) :
                   (SkipCondition(p.results[k].model_id)
                        /\ ~ReadFailed(p.results[k]))
                       => p.results[k].skipped

\* processOne has called update_model_photos for a model whose cv_infer is
\* true, and has reported it as not skipped
C15_FlaggedModelEnriched ==
    \E p \in pending :
        /\ p.route = "part_006"
        /\ p.pc = "done"
        /\ p.results # << >>
        /\ db.models[p.results[1].model_id].cv_infer
        /\ ~p.results[1].skipped
        /\ Calls("update_model_photos", p.results[1].model_id, "start") # {}

\* update_model_photos starts only after update_model has ended
PhotosFollowUpdateModel ==
    \A i \in 1..Len(log) :
        (log[i].call = "update_model_photos" /\ log[i].phase = "start")
            => \E j \in 1..(i - 1) : /\ log[j].call = "update_model"
                                     /\ log[j].model_id = log[i].model_id
                                     /\ log[j].phase = "end"

\* once a record for which update_model was called is reported,
\* update_model_photos has been called for it
PhotosAlwaysCalled ==
    \A p \in pending : \A k \in 1..Len(p.results) :
        Calls("update_model", p.results[k].model_id, "start") # {}
            => Calls("update_model_photos", p.results[k].model_id, "start") # {}

\* the reported result is the one that the outcome of update_model decides
ResultOfFirstCall ==
    \A p \in pending : \A k \in 1..Len(p.results) :
        \A i \in Calls("update_model", p.results[k].model_id, "end") :
            IF p.route = "cv-infer"
            THEN /\ p.results[k].success = Ok(log[i].outcome)
                 /\ p.results[k].status = log[i].outcome.status
            ELSE /\ p.results[k].success
                 /\ p.results[k].didUpdateModel = Ok(log[i].outcome)

\* C16: for a record that is not skipped, update_model_photos is called
\* only after update_model has ended, it is called whatever the outcome of
\* update_model, and its own outcome does not change the reported result.
C16_PhotosAfterUpdateModel ==
    /\ PhotosFollowUpdateModel
    /\ PhotosAlwaysCalled
    /\ ResultOfFirstCall

\* what C16 says holds of cv-infer/route.ts but for the thrown failure
C16_RouteOrder ==
    \A p \in pending :
        p.route = "cv-infer" => (PhotosFollowUpdateModel /\ ResultOfFirstCall)

\* cv-infer/route.ts has answered after update_model threw, without a call
\* of update_model_photos
C16_PhotosNeverCalled ==
    \E p \in pending :
        /\ p.route = "cv-infer"
        /\ p.pc = "done"
        /\ log = << CallStart("update_model", "11"),
                    CallEnd("update_model", "11", ServiceThrows) >>

(***************************************************************************)
(* Delete-by-source (the second POST of check/route.ts, lines 30-106)      *)
(*                                                                         *)
(* db.models is the sequence of the rows of models, each with its id and   *)
(* data_source; db.models_media and db.models_agencies are the sequences   *)
(* of the model_id of their rows.  log is the sequence of the deletes      *)
(* sent to the store.                                                      *)
(***************************************************************************)
BATCH == 1000

ModelOf(id, dataSource) == [id |-> id, data_source |-> dataSource]

\* .delete().in('model_id', slice) on a table of dependents
WithoutModels(rows, slice) ==
    LET gone == SeqToSet(slice)
    IN  SelectSeq(rows, LAMBDA modelId : modelId \notin gone)

\* .delete().eq('data_source', dataSource) on models
WithoutSource(rows, dataSource) ==
    SelectSeq(rows, LAMBDA row : row.data_source # dataSource)

\* (models || []).map((m) => m.id) of the rows with the data_source
IdsOfSource(rows, dataSource) ==
    LET found == SelectSeq(rows, LAMBDA row : row.data_source = dataSource)
    IN  [k \in 1..Len(found) |-> found[k].id]

\* modelIds.slice(i, i + BATCH)
Slice(modelIds, i) ==
    SubSeq(modelIds, i + 1,
           IF i + BATCH < Len(modelIds) THEN i + BATCH ELSE Len(modelIds))

Delete(table, ok) == [table |-> table, ok |-> ok]

PurgeRequest(dataSource) ==
    [dataSource |-> dataSource, pc |-> "start", modelIds |-> << >>, i |-> 0,
     httpStatus |-> 0, success |-> FALSE, message |-> "", count |-> 0]

PurgeRespond(p, httpStatus, success, message) ==
    [p EXCEPT !.pc = "done", !.httpStatus = httpStatus,
              !.success = success, !.message = message]

\* the request is accepted: the checks of the environment and of the body
PurgeStart(request) ==
    /\ pending = {}
    /\ pending' =
         { IF ~env.supabase
           THEN PurgeRespond(request, 500, FALSE,
                    "Supabase environment variables are not set")
           ELSE IF request.dataSource = ""
           THEN PurgeRespond(request, 400, FALSE, "Missing data_source")
           ELSE [request EXCEPT !.pc = "list"] }
    /\ UNCHANGED <<ingestVars, home, db, log>>

\* the ids of the models of the data_source have been read
PurgeList(p, queryOk) ==
    /\ p.pc = "list"
    /\ pending' = (pending \ {p}) \cup
         { IF ~queryOk
           THEN PurgeRespond(p, 500, FALSE, "Failed to list models")
           ELSE LET modelIds == IdsOfSource(db.models, p.dataSource)
                IN  [p EXCEPT !.modelIds = modelIds,
                              !.pc = IF Len(modelIds) > 0 THEN "media"
                                     ELSE "models"] }
    /\ UNCHANGED <<ingestVars, home, db, log>>

\* a faulty variant: the error of a delete is ignored
AfterDeleteMutIgnore(p, ok, message, next) == next

\* the request goes on after a delete that succeeded, and answers with the
\* failure after one that did not
AfterDelete(p, ok, message, next) ==
    IF ok THEN next ELSE PurgeRespond(p, 500, FALSE, message)

\* the media rows of the models of the slice have been deleted, or not
PurgeDeleteMedia(p, ok) ==
    /\ p.pc = "media"
    /\ db' = IF ok
             THEN [db EXCEPT !.models_media =
                       WithoutModels(@, Slice(p.modelIds, p.i))]
             ELSE db
    /\ log' = Append(log, Delete("models_media", ok))
    /\ pending' = (pending \ {p}) \cup
         { AfterDelete(p, ok, "Failed to delete medias",
                       [p EXCEPT !.pc = "links"]) }
    /\ UNCHANGED <<ingestVars, home>>

\* the agency links of the models of the slice have been deleted, or not;
\* then the next slice, or the delete of the models
PurgeDeleteLinks(p, ok) ==
    /\ p.pc = "links"
    /\ db' = IF ok
             THEN [db EXCEPT !.models_agencies =
                       WithoutModels(@, Slice(p.modelIds, p.i))]
             ELSE db
    /\ log' = Append(log, Delete("models_agencies", ok))
    /\ pending' = (pending \ {p}) \cup
         { AfterDelete(p, ok, "Failed to delete model-agency links",
                       [p EXCEPT !.i = @ + BATCH,
                                 !.pc = IF p.i + BATCH < Len(p.modelIds)
                                        THEN "media" ELSE "models"]) }
    /\ UNCHANGED <<ingestVars, home>>

\* the models of the data_source have been deleted, or not
PurgeDeleteModels(p, ok) ==
    /\ p.pc = "models"
    /\ db' = IF ok
             THEN [db EXCEPT !.models = WithoutSource(@, p.dataSource)]
             ELSE db
    /\ log' = Append(log, Delete("models", ok))
    /\ pending' = (pending \ {p}) \cup
         { AfterDelete(p, ok, "Failed to delete models",
               [PurgeRespond(p, 200, TRUE, "Deleted models and related records")
                   EXCEPT !.count = Len(db.models)
                                      - Len(WithoutSource(db.models,
                                                          p.dataSource))]) }
    /\ UNCHANGED <<ingestVars, home>>

(***************************************************************************)
(* SpecPurge: one delete-by-source request on a store that holds the       *)
(* models of w.csv and one model of another file                           *)
(***************************************************************************)
MaxModels == 1001

ModelCounts == {0, 1, 2, MaxModels}

\* n models of w.csv, then one of other.csv
ModelsOfStore(n) ==
    [id \in 1..(n + 1) |->
        ModelOf(id, IF id <= n THEN "w.csv" ELSE "other.csv")]

\* one dependent row for every model, or none
DependentsOfStore(n) == { [id \in 1..(n + 1) |-> id], << >> }

PurgeStores ==
    UNION { [models : {ModelsOfStore(n)},
             models_media : DependentsOfStore(n),
             models_agencies : DependentsOfStore(n)] : n \in ModelCounts }

PurgeRequests ==
    { PurgeRequest("w.csv"), PurgeRequest("other.csv"), PurgeRequest("") }

PurgeInit ==
    /\ db \in PurgeStores
    /\ pending = {}
    /\ log = << >>
    /\ home = Null
    /\ env \in { Configured, [anthropicKey |-> TRUE, supabase |-> FALSE] }
    /\ models = NoRows
    /\ reqs = << >>
    /\ started = 0
    /\ IdleMapper

PurgeNext ==
    \/ \E request \in PurgeRequests : PurgeStart(request)
    \/ \E p \in pending : \E queryOk \in BOOLEAN : PurgeList(p, queryOk)
    \/ \E p \in pending : \E ok \in BOOLEAN : PurgeDeleteMedia(p, ok)
    \/ \E p \in pending : \E ok \in BOOLEAN : PurgeDeleteLinks(p, ok)
    \/ \E p \in pending : \E ok \in BOOLEAN : PurgeDeleteModels(p, ok)

SpecPurge == PurgeInit /\ [][PurgeNext]_vars

(***************************************************************************)
(* Properties of delete-by-source                                          *)
(***************************************************************************)
\* the ids of the rows of models
StoredIds == { db.models[k].id : k \in 1..Len(db.models) }

\* every dependent row belongs to a model that is stored
NoOrphan ==
    /\ SeqToSet(db.models_media) \subseteq StoredIds
    /\ SeqToSet(db.models_agencies) \subseteq StoredIds

\* a delete of a table of dependents has failed
DependentFailed ==
    \E i \in 1..Len(log) :
        log[i].table \in {"models_media", "models_agencies"} /\ ~log[i].ok

ModelsDeleteSent == \E i \in 1..Len(log) : log[i].table = "models"

\* C17: the media rows and the agency links of the models of the source
\* are deleted before any of its models, so that no dependent row is ever
\* left without its model; and after a failed delete of dependents the
\* action answers with a failure and sends no delete of models.
C17_ChildrenFirst ==
    /\ NoOrphan
    /\ DependentFailed =>
          /\ ~ModelsDeleteSent
          /\ \A p \in pending :
                 /\ p.pc = "done"
                 /\ p.httpStatus = 500
                 /\ ~p.success
                 /\ IdsOfSource(db.models, p.dataSource) = p.modelIds

\* the models of w.csv are deleted, in two slices of dependents
C17_Witness ==
    /\ \E p \in pending : p.pc = "done" /\ p.success /\ p.count = MaxModels
    /\ Len(log) = 5
    /\ Len(db.models) = 1

\* the delete of the links of the second slice has failed: the models are
\* all stored
C17_FailureKeepsModels ==
    /\ \E p \in pending : p.pc = "done" /\ ~p.success /\ p.i = BATCH
    /\ Len(log) = 4
    /\ ~log[4].ok
    /\ Len(db.models) = MaxModels + 1

(***************************************************************************)
(* The direct insert with agency linking (POST of src/unnamed/part_005)    *)
(*                                                                         *)
(* db.models is the sequence of the rows of models, db.models_media the    *)
(* one of the rows (model_id, link) and db.models_agencies the one of the  *)
(* rows (model_id, agency_id).  log is the sequence of the batches of      *)
(* links sent to models_agencies.  The request carries the records that    *)
(* applyMappingToRow made of its file: the model_name and the media links  *)
(* of each.                                                                *)
(***************************************************************************)
INSERT_BATCH_SIZE == 500

Transformed(modelName, links) == [model_name |-> modelName, links |-> links]

StoredModel(id, modelName, dataSource) ==
    [id |-> id, model_name |-> modelName, data_source |-> dataSource]

MediaRow(modelId, link) == [model_id |-> modelId, link |-> link]

Link(modelId, agencyId) == [model_id |-> modelId, agency_id |-> agencyId]

LinkRequest(valid, dataSource, transformed, agencyIdStr) ==
    [valid |-> valid, dataSource |-> dataSource, transformed |-> transformed,
     agencyIdStr |-> agencyIdStr, pc |-> "start", i |-> 0,
     keyToId |-> << >>, mediaRows |-> << >>, relRows |-> << >>,
     toInsert |-> << >>, insertedTotal |-> 0, mediaInserted |-> 0,
     agenciesLinked |-> 0, httpStatus |-> 0, success |-> FALSE, run |-> 0]

LinkRespond(p, httpStatus, success) ==
    [p EXCEPT !.pc = "done", !.httpStatus = httpStatus, !.success = success]

\* q.slice(i, i + INSERT_BATCH_SIZE)
BatchAt(q, i) ==
    SubSeq(q, i + 1,
           IF i + INSERT_BATCH_SIZE < Len(q) THEN i + INSERT_BATCH_SIZE
           ELSE Len(q))

\* the concatenation of the sequences of a sequence
RECURSIVE Flatten(_)
Flatten(qs) == IF qs = << >> THEN << >> ELSE Head(qs) \o Flatten(Tail(qs))

\* the requests accepted so far, one after the other
Runs == IF pending = {} THEN 0 ELSE (CHOOSE p \in pending : TRUE).run

MaxRuns == 2

\* the request is accepted once the one before it has been answered: the
\* form, the gender and the environment are checked
LinkStart(request) ==
    /\ Runs < MaxRuns
    /\ \A p \in pending : p.pc = "done"
    /\ LET r == [request EXCEPT !.run = Runs + 1]
       IN  pending' =
             { IF ~r.valid
               THEN LinkRespond(r, 400, FALSE)
               ELSE IF ~env.supabase
               THEN LinkRespond(r, 500, FALSE)
               ELSE [r EXCEPT !.pc = IF Len(r.transformed) > 0
                                     THEN "insertModels" ELSE "fetch"] }
    /\ UNCHANGED <<ingestVars, home, db, log>>

\* a batch of model rows has been inserted, or not: every row gets the
\* next id of the table
LinkInsertModels(p, ok) ==
    /\ p.pc = "insertModels"
    /\ LET batch == BatchAt(p.transformed, p.i)
       IN  IF ~ok
           THEN /\ pending' = (pending \ {p}) \cup {LinkRespond(p, 500, FALSE)}
                /\ db' = db
           ELSE /\ db' = [db EXCEPT !.models = @ \o
                              [k \in 1..Len(batch) |->
                                  StoredModel(Len(db.models) + k,
                                              batch[k].model_name,
                                              p.dataSource)]]
                /\ pending' = (pending \ {p}) \cup
                     {[p EXCEPT !.insertedTotal = @ + Len(batch),
                                !.i = IF p.i + INSERT_BATCH_SIZE
                                           < Len(p.transformed)
                                      THEN p.i + INSERT_BATCH_SIZE ELSE 0,
                                !.pc = IF p.i + INSERT_BATCH_SIZE
                                            < Len(p.transformed)
                                       THEN "insertModels" ELSE "fetch"]}
    /\ UNCHANGED <<ingestVars, home, log>>

\* the model names of the rows of the data_source
NamesOfSource(rows, dataSource) ==
    { rows[k].model_name : k \in { j \in 1..Len(rows) :
                                       rows[j].data_source = dataSource } }

\* new Map(modelsForSource.map(...)): the last row of a key gives its id,
\* and the select has no order, so that any row of the key may be the last
KeyMaps(rows, dataSource) ==
    { keyToId \in [NamesOfSource(rows, dataSource) -> { rows[k].id : k \in 1..Len(rows) }] :
        \A key \in NamesOfSource(rows, dataSource) :
            \E k \in 1..Len(rows) : /\ rows[k].data_source = dataSource
                                    /\ rows[k].model_name = key
                                    /\ rows[k].id = keyToId[key] }

\* the media rows of the records whose key has an id
LinkedMediaRows(transformed, keyToId) ==
    Flatten([k \in 1..Len(transformed) |->
        IF transformed[k].model_name \in DOMAIN keyToId
        THEN [n \in 1..Len(transformed[k].links) |->
                 MediaRow(keyToId[transformed[k].model_name],
                          transformed[k].links[n])]
        ELSE << >>])

\* relRows: one link for every record whose key has an id
RelRowsOf(transformed, keyToId, agencyId) ==
    Flatten([k \in 1..Len(transformed) |->
        IF transformed[k].model_name \in DOMAIN keyToId
        THEN <<Link(keyToId[transformed[k].model_name], agencyId)>>
        ELSE << >>])

\* what follows the media inserts: the precheck of the links when an agency
\* was given, else the response
AfterMedia(p) ==
    IF p.agencyIdStr # ""
    THEN [p EXCEPT !.pc = "precheck", !.i = 0,
                   !.relRows = RelRowsOf(p.transformed, p.keyToId,
                                         p.agencyIdStr)]
    ELSE LinkRespond(p, 200, TRUE)

\* the models of the data_source have been read, or not; the media rows
\* are prepared
LinkFetchModels(p, ok, keyToId) ==
    /\ p.pc = "fetch"
    /\ pending' = (pending \ {p}) \cup
         { IF ~ok THEN LinkRespond(p, 500, FALSE)
           ELSE LET q == [p EXCEPT !.keyToId = keyToId,
                                   !.mediaRows =
                                       LinkedMediaRows(p.transformed, keyToId)]
                IN  IF Len(q.mediaRows) > 0
                    THEN [q EXCEPT !.pc = "media", !.i = 0]
                    ELSE AfterMedia(q) }
    /\ UNCHANGED <<ingestVars, home, db, log>>

\* a batch of media rows has been inserted, or not
LinkInsertMedia(p, ok) ==
    /\ p.pc = "media"
    /\ LET batch == BatchAt(p.mediaRows, p.i)
       IN  IF ~ok
           THEN /\ pending' = (pending \ {p}) \cup {LinkRespond(p, 500, FALSE)}
                /\ db' = db
           ELSE /\ db' = [db EXCEPT !.models_media = @ \o batch]
                /\ pending' = (pending \ {p}) \cup
                     { IF p.i + INSERT_BATCH_SIZE < Len(p.mediaRows)
                       THEN [p EXCEPT !.mediaInserted = @ + Len(batch),
                                      !.i = @ + INSERT_BATCH_SIZE]
                       ELSE AfterMedia([p EXCEPT
                                !.mediaInserted = @ + Len(batch)]) }
    /\ UNCHANGED <<ingestVars, home, log>>

\* the links of the agency to the models of relRows have been read, or not;
\* relRows without the models already linked is what will be inserted
LinkPrecheck(p, ok) ==
    /\ p.pc = "precheck"
    /\ pending' = (pending \ {p}) \cup
         { IF ~ok THEN LinkRespond(p, 500, FALSE)
           ELSE LET modelIds == { p.relRows[k].model_id :
                                      k \in 1..Len(p.relRows) }
                    existingSet ==
                        { db.models_agencies[k].model_id :
                            k \in { j \in 1..Len(db.models_agencies) :
                                /\ db.models_agencies[j].agency_id
                                       = p.agencyIdStr
                                /\ db.models_agencies[j].model_id
                                       \in modelIds } }
                    toInsert ==
                        SelectSeq(p.relRows,
                                  LAMBDA r : r.model_id \notin existingSet)
                IN  IF Len(toInsert) > 0
                    THEN [p EXCEPT !.toInsert = toInsert, !.pc = "links",
                                   !.i = 0]
                    ELSE LinkRespond(p, 200, TRUE) }
    /\ UNCHANGED <<ingestVars, home, db, log>>

\* a batch of links has been inserted, or not
LinkInsertLinks(p, ok) ==
    /\ p.pc = "links"
    /\ LET batch == BatchAt(p.toInsert, p.i)
       IN  /\ log' = Append(log, batch)
           /\ IF ~ok
              THEN /\ pending' = (pending \ {p}) \cup
                                     {LinkRespond(p, 500, FALSE)}
                   /\ db' = db
              ELSE /\ db' = [db EXCEPT !.models_agencies = @ \o batch]
                   /\ pending' = (pending \ {p}) \cup
                        { IF p.i + INSERT_BATCH_SIZE < Len(p.toInsert)
                          THEN [p EXCEPT !.agenciesLinked = @ + Len(batch),
                                         !.i = @ + INSERT_BATCH_SIZE]
                          ELSE LinkRespond([p EXCEPT
                                   !.agenciesLinked = @ + Len(batch)],
                                   200, TRUE) }
    /\ UNCHANGED <<ingestVars, home>>

(***************************************************************************)
(* SpecLink: runs of the direct insert, one after the other                *)
(***************************************************************************)
LinkRequests ==
    { LinkRequest(TRUE, "w.csv", <<Transformed("ana", <<"ig/ana">>)>>, "7"),
      LinkRequest(TRUE, "w.csv",
                  <<Transformed("ana", << >>), Transformed("bea", << >>)>>,
                  "7"),
      LinkRequest(TRUE, "w.csv",
                  <<Transformed("ana", << >>), Transformed("ana", << >>)>>,
                  "7"),
      LinkRequest(TRUE, "w.csv", <<Transformed("ana", << >>)>>, ""),
      LinkRequest(TRUE, "w.csv",
                  <<Transformed("ana", <<"ig/ana1">>),
                    Transformed("ana", <<"ig/ana2">>)>>, ""),
      LinkRequest(TRUE, "w.csv",
                  <<Transformed("ana", <<"ig/ana1">>),
                    Transformed("bea", <<"ig/bea">>)>>, ""),
      LinkRequest(TRUE, "w.csv", << >>, "7"),
      LinkRequest(FALSE, "w.csv", << >>, "") }

\* an empty store, and one in which ana of w.csv is linked to agency 7
LinkStores ==
    { [models |-> << >>, models_media |-> << >>, models_agencies |-> << >>],
      [models |-> <<StoredModel(1, "ana", "w.csv")>>,
       models_media |-> << >>,
       models_agencies |-> <<Link(1, "7")>>] }

LinkInit ==
    /\ db \in LinkStores
    /\ pending = {}
    /\ log = << >>
    /\ home = Null
    /\ env \in { Configured, [anthropicKey |-> TRUE, supabase |-> FALSE] }
    /\ models = NoRows
    /\ reqs = << >>
    /\ started = 0
    /\ IdleMapper

LinkNext ==
    \/ \E request \in LinkRequests : LinkStart(request)
    \/ \E p \in pending : \E ok \in BOOLEAN : LinkInsertModels(p, ok)
    \/ \E p \in pending : \E ok \in BOOLEAN :
           \E keyToId \in KeyMaps(db.models, p.dataSource) :
               LinkFetchModels(p, ok, keyToId)
    \/ \E p \in pending : \E ok \in BOOLEAN : LinkInsertMedia(p, ok)
    \/ \E p \in pending : \E ok \in BOOLEAN : LinkPrecheck(p, ok)
    \/ \E p \in pending : \E ok \in BOOLEAN : LinkInsertLinks(p, ok)

SpecLink == LinkInit /\ [][LinkNext]_vars

(***************************************************************************)
(* Properties of the agency linking                                        *)
(***************************************************************************)
\* no two elements of q are the same
Distinct(q) == \A i, j \in 1..Len(q) : i # j => q[i] # q[j]

\* C18: no (model_id, agency_id) pair is stored twice in models_agencies,
\* whether it was there before the run or is written by it, and no batch
\* sent to models_agencies holds a pair twice.
C18_NoDuplicateLink ==
    /\ Distinct(db.models_agencies)
    /\ \A b \in 1..Len(log) : Distinct(log[b])

\* the part of C18 that the code keeps: a link that is stored is never
\* sent again
C18_ExistingNotResent ==
    [][\A b \in 1..Len(log') :
           b > Len(log) =>
               \A k \in 1..Len(log'[b]) :
                   log'[b][k] \notin SeqToSet(db.models_agencies)]_vars

\* a run has answered with success after it stored the same link twice
C18_LinkStoredTwice ==
    /\ \E p \in pending : p.pc = "done" /\ p.success /\ p.agenciesLinked = 2
    /\ \E i, j \in 1..Len(db.models_agencies) :
           i # j /\ db.models_agencies[i] = db.models_agencies[j]

(***************************************************************************)
(* SpecEnum: one call of SAFE_TRANSFORMS.enumSanitize(choicesCsv)(v)       *)
(***************************************************************************)
EnumChoiceLists ==
    { "male,female,non-binary", "Blonde, Dark Brown ,grey",
      "blond,gray_blue,light grey", "new_faces,main board,Curve",
      "a,A, a ", "", "mainboard,curve", Join(EyeColourValues, ",") }

EnumInputs ==
    { Null, "", "male", " Female ", "Non Binary", "non-binary", "nonbinary",
      "blond", "BLONDE", "dark brown", "Dark_Brown", "gray", "grey blue",
      "light gray", "main_board", "mainboard", "curve!", "A", "other",
      "gray_green", "grey_green", "Blue Gray" }

EnumInit ==
    /\ mapIn \in [choicesCsv : EnumChoiceLists, v : EnumInputs]
    /\ mapOut = [done |-> FALSE, result |-> Null]
    /\ env = Configured
    /\ models = NoRows
    /\ reqs = << >>
    /\ started = 0
    /\ OtherIdle

CallEnumSanitize ==
    /\ ~mapOut.done
    /\ mapOut' = [done |-> TRUE,
                  result |-> EnumSanitize(mapIn.choicesCsv, mapIn.v)]
    /\ UNCHANGED <<env, models, reqs, started, mapIn>>
    /\ UNCHANGED otherVars

EnumNext == CallEnumSanitize

SpecEnum == EnumInit /\ [][EnumNext]_vars

\* the choices supplied to the call, as enumSanitize splits and trims them
SuppliedChoices == SeqToSet(TrimEach(Split(mapIn.choicesCsv, ",")))

\* C20: enumSanitize returns null or exactly one of the supplied choices.
C20_ReturnsChoice ==
    mapOut.done => (mapOut.result = Null \/ mapOut.result \in SuppliedChoices)

\* what the code keeps of C20: the result is null or the normalized form of
\* a supplied choice
C20_ReturnsNormalizedChoice ==
    mapOut.done =>
        \/ mapOut.result = Null
        \/ mapOut.result \in { EnumNormalize(c) : c \in SuppliedChoices }

\* the choice non-binary was matched and its normalized form returned
C20_NormalizedFormReturned ==
    /\ mapOut.done
    /\ mapIn.choicesCsv = "male,female,non-binary"
    /\ mapIn.v = "Non Binary"
    /\ mapOut.result = "nonbinary"

\* the normalized forms of the supplied choices, the empty one left out
NormalizedChoices == { EnumNormalize(c) : c \in SuppliedChoices } \ {""}

\* the aliases of a normalized choice: the choice, its blonde/blond and
\* gray/grey respellings, and the underscore-stripped form of each
AliasesOf(c) ==
    LET spelt == { c, ReplaceAll(c, "blonde", "blond"),
                   ReplaceAll(c, "blond", "blonde"),
                   ReplaceAll(c, "gray", "grey"), ReplaceAll(c, "grey", "gray") }
    IN  spelt \cup { StripUnderscore(a) : a \in spelt }

\* the choices of the call of which the normalized input is an alias
OwnersOf(n) == { c \in NormalizedChoices : n \in AliasesOf(c) }

\* the choices an alias of which is the normalized input or its
\* underscore-stripped form, the two keys enumSanitize looks up
OwnersOfLookups(n) ==
    { c \in NormalizedChoices : {n, StripUnderscore(n)} \cap AliasesOf(c) # {} }

\* C21: enumSanitize is total over the alias set: an input that is an alias
\* of a choice of the list returns that choice (the choice itself when the
\* input is a choice, also when the list holds choices that differ only by
\* a blonde/blond or gray/grey spelling), and an input that is an alias of
\* no choice returns null.  Choices are compared in their normalized form.
C21_AliasReturnsChoice ==
    (mapOut.done /\ ~IsNullish(mapIn.v)) =>
        LET n == EnumNormalize(mapIn.v)
        IN  IF OwnersOf(n) = {} THEN mapOut.result = Null
            ELSE /\ mapOut.result \in OwnersOf(n)
                 /\ n \in NormalizedChoices => mapOut.result = n

\* what the code does guarantee: an input that matches, itself or with its
\* underscores removed, the aliases of one choice only returns that choice,
\* and an input that matches none returns null
C21_UnambiguousAliasResolves ==
    (mapOut.done /\ ~IsNullish(mapIn.v)) =>
        LET owners == OwnersOfLookups(EnumNormalize(mapIn.v))
        IN  /\ owners = {} => mapOut.result = Null
            /\ Cardinality(owners) = 1 => mapOut.result \in owners

\* with the eye colours of MODELS_FIELDS the choice gray_green is given and
\* the later choice grey_green is returned
C21_LaterSpellingWins ==
    /\ mapOut.done
    /\ mapIn.choicesCsv = Join(EyeColourValues, ",")
    /\ mapIn.v = "gray_green"
    /\ mapOut.result = "grey_green"

\* an input that is no alias of the choice mainboard returns it
C21_StrippedInputMatches ==
    /\ mapOut.done
    /\ mapIn.choicesCsv = "mainboard,curve"
    /\ mapIn.v = "main_board"
    /\ mapOut.result = "mainboard"


(***************************************************************************)
(* The keys of a mapping (shared.ts MappingSchema, applyMappingToRow;      *)
(* part_005 and upsert/route.ts, which parse the mapping of a confirm)     *)
(***************************************************************************)
\* the keys of MODELS_FIELDS
ModelsColumns ==
    { "model_name", "profile_url", "min_estimated_age", "max_estimated_age",
      "height", "dress_size", "bra_size", "bikini_bottom_size", "chest_bust",
      "waist", "hips", "jeans_size", "shoe_size", "instagram_account",
      "model_board_category", "hair_colour", "eye_colour", "sexuality",
      "gender", "pronouns", "body_type", "hobby_interest_talent", "location",
      "models_dot_com_profile", "mdc_achievements", "data_source" }

\* the keys of MODELS_MEDIA_FIELDS
MediaColumns == { "link" }

\* the three fields the context of an import decides
SystemColumns == { "gender", "model_board_category", "data_source" }

\* JSON.parse(mappingStr) of a confirm whose fieldMappings has one key
KeyedValue(key, from) ==
    JObj(<<"targetTables", "fieldMappings">>,
         <<TablesOf(<<"models">>),
           JObj(<<"models.model_name", key>>,
                <<JObj(<<"from">>, <<JStr("Name")>>),
                  JObj(<<"from">>, <<JStr(from)>>)>>)>>)

\* the keys a confirm is sent with: a known column, an unknown column, the
\* generated id, a system field, a table that does not exist, a key without
\* a table, and a second known column whose entry the schema refuses
MappingValues ==
    { KeyedValue("models.instagram_account", "IG"),
      KeyedValue("models.hacked", "Gender"),
      KeyedValue("models.id", "Name"),
      KeyedValue("models.gender", "Gender"),
      KeyedValue("agencies.name", "Name"),
      KeyedValue("height", "Name"),
      JObj(<<"targetTables", "fieldMappings">>,
           <<TablesOf(<<"models">>),
             JObj(<<"models.height">>,
                  <<JObj(<<"from", "transform">>,
                         <<JStr("Name"), JNum("5")>>)>>)>>) }

\* const mapping = MappingSchema.parse(JSON.parse(mappingStr))
ParseMapping ==
    /\ mapOut.pc = "parse"
    /\ mapOut' = [mapOut EXCEPT !.pc = IF SchemaParse(mapIn.value).ok
                                       THEN "apply" ELSE "rejected",
                                !.parsed = SchemaParse(mapIn.value)]
    /\ UNCHANGED <<env, models, reqs, started, mapIn>>
    /\ UNCHANGED otherVars

\* rows.map((row) => applyMappingToRow(row, mapping, {...})), one row
ApplyParsed ==
    /\ mapOut.pc = "apply"
    /\ mapOut' = [mapOut EXCEPT !.pc = "done",
                                !.result = ApplyMappingToRow(mapIn.row,
                                               mapOut.parsed.mapping,
                                               mapIn.opts)]
    /\ UNCHANGED <<env, models, reqs, started, mapIn>>
    /\ UNCHANGED otherVars

KeysInit ==
    /\ mapIn \in [value : MappingValues, row : MapperRows, opts : MapperOpts]
    /\ mapOut = [pc |-> "parse", parsed |-> NoMapping, result |-> NoResult]
    /\ env = [anthropicKey |-> TRUE, supabase |-> TRUE]
    /\ models = << >>
    /\ reqs = << >>
    /\ started = 0
    /\ OtherIdle

KeysNext ==
    \/ ParseMapping
    \/ ApplyParsed

SpecKeys == KeysInit /\ [][KeysNext]_vars

\* the keys of the fieldMappings of the value a confirm is sent with
SentKeys == JGet(mapIn.value, "fieldMappings").keys

\* a key is table.column with a table and a column the platform has
KnownKey(key) ==
    LET parts == Split(key, ".")
    IN  /\ Len(parts) = 2
        /\ \/ parts[1] = "models" /\ parts[2] \in ModelsColumns
           \/ parts[1] = "models_media" /\ parts[2] \in MediaColumns

\* a key that targets one of the fields the system decides
SystemKey(key) ==
    LET parts == Split(key, ".")
    IN  Len(parts) = 2 /\ parts[1] = "models" /\ parts[2] \in SystemColumns

\* C19: a mapping MappingSchema accepts has only keys of the form
\* table.column with a known table and a known column and none that targets
\* a system field, and the record applyMappingToRow produces from it carries
\* only columns of MODELS_FIELDS.
C19_OnlyKnownKeys ==
    /\ mapOut.pc \in {"apply", "done"} =>
           \A i \in 1..Len(SentKeys) :
               KnownKey(SentKeys[i]) /\ ~SystemKey(SentKeys[i])
    /\ mapOut.pc = "done" => DOMAIN mapOut.result.models \subseteq ModelsColumns

\* what the code does guarantee: the schema looks at the entries and never
\* at the keys, and a column of the produced record is a system field or the
\* column of a key of the mapping whose table is models
C19_ColumnsFromModelsKeys ==
    /\ mapOut.pc \in {"apply", "done"} =>
           /\ SchemaFits(mapIn.value)
           /\ Len(mapOut.parsed.mapping.fieldMappings) = Len(SentKeys)
    /\ mapOut.pc = "done" =>
           \A c \in DOMAIN mapOut.result.models :
               \/ c \in SystemColumns
               \/ \E i \in 1..Len(SentKeys) :
                      /\ Split(SentKeys[i], ".")[1] = "models"
                      /\ Len(Split(SentKeys[i], ".")) >= 2
                      /\ Split(SentKeys[i], ".")[2] = c

\* a confirm whose mapping names the column hacked is accepted, and the
\* record produced carries that column
C19_UnknownColumnProduced ==
    /\ mapOut.pc = "done"
    /\ mapIn.value = KeyedValue("models.hacked", "Gender")
    /\ mapIn.row[2] = Cell("Gender", "Male")
    /\ "hacked" \in DOMAIN mapOut.result.models
    /\ mapOut.result.models["hacked"] = "Male"

(***************************************************************************)
(* SpecRows: one row of a file through preview and through confirm         *)
(*                                                                         *)
(* mapIn is the form both routes receive (the file's name, its gender      *)
(* field, one row of the file, the mapping); mapOut holds, for each route, *)
(* the status it answers with and the models record it produces for the    *)
(* row: the one preview returns in samplePreview and the one confirm       *)
(* forwards as payload.record.                                             *)
(***************************************************************************)
ShoeFrom == FromArr(<<"Shoe Size", "Shoe EU", "shoes">>)

ShoeEntry(transform) ==
    Entry("models.shoe_size", FieldSpec(ShoeFrom, transform, Undefined))

HeightEntry ==
    Entry("models.height", FieldSpec(FromStr("Height"), "parseNumber", Undefined))

RowsMappings ==
    { MappingOf(<<NameEntry, HeightEntry>>) }
      \cup { MappingOf(<<NameEntry, ShoeEntry(t)>>) :
                 t \in {Undefined, "parseNumber", "parseUkShoeMax", "trim"} }

RowsRows ==
    { << Cell("Name", "jane doe"), Cell("Shoe Size", "UK 6-7"),
         Cell("Height", "5'7\"") >>,
      << Cell("Name", "amy lee"), Cell("Shoe EU", "40"),
         Cell("Height", "n/a") >>,
      << Cell("Name", "li"), Cell("shoes", "EU 39"), Cell("Height", "172cm") >> }

RowsFiles == {"women.csv", "boys_eu.csv", "list.csv"}

NoRecord == [status |-> 0, record |-> NoFields]

\* the context both routes resolve from the form
ContextOf(form) ==
    [gender |-> ResolveGender(form.gender, form.file),
     modelBoard |-> OrElse(InferModelBoardFromFilename(form.file), Null),
     dataSource |-> form.file]

RowsContexts ==
    { <<form, ContextOf(form)>> :
          form \in [file : RowsFiles, gender : {Null, "male"}] }

ContextFor(file, gender) ==
    (CHOOSE p \in RowsContexts : p[1] = [file |-> file, gender |-> gender])[2]

\* the answer of a route for the row: 400 without a gender, else the
\* models record of applyMappingToRow
RecordOf(row, mapping, opts) ==
    IF IsNullish(opts.gender) \/ opts.gender = "" THEN [NoRecord EXCEPT !.status = 400]
    ELSE [status |-> 200, record |-> ApplyMappingToRow(row, mapping, opts).models]

\* preview: previewRows of the mapping as it is
PreviewRow ==
    /\ mapOut.preview.status = 0
    /\ mapOut' = [mapOut EXCEPT !.preview =
           RecordOf(mapIn.row, mapIn.mapping,
                    ContextFor(mapIn.file, mapIn.gender))]
    /\ UNCHANGED <<env, models, reqs, started, mapIn>>
    /\ UNCHANGED otherVars

\* confirm: transformed of the mapping ensureShoeMapping returns
ConfirmRow ==
    /\ mapOut.confirm.status = 0
    /\ mapOut' = [mapOut EXCEPT !.confirm =
           RecordOf(mapIn.row,
                    EnsureShoeMapping(mapIn.mapping, KeysOf(mapIn.row)),
                    ContextFor(mapIn.file, mapIn.gender))]
    /\ UNCHANGED <<env, models, reqs, started, mapIn>>
    /\ UNCHANGED otherVars

RowsInit ==
    /\ mapIn \in [file : RowsFiles, gender : {Null, "male"}, row : RowsRows,
                  mapping : RowsMappings]
    /\ mapOut = [preview |-> NoRecord, confirm |-> NoRecord]
    /\ env = [anthropicKey |-> TRUE, supabase |-> TRUE]
    /\ models = << >>
    /\ reqs = << >>
    /\ started = 0
    /\ OtherIdle

RowsNext ==
    \/ PreviewRow
    \/ ConfirmRow

SpecRows == RowsInit /\ [][RowsNext]_vars

\* the entries of the mapping sent that target models.shoe_size with a
\* transform of their own
ShoeRequests ==
    { i \in 1..Len(mapIn.mapping.fieldMappings) :
          /\ mapIn.mapping.fieldMappings[i].key = "models.shoe_size"
          /\ ~IsNullish(mapIn.mapping.fieldMappings[i].spec.transform)
          /\ mapIn.mapping.fieldMappings[i].spec.transform # "" }

\* the value the transform the entry requests gives for the row
RequestedValue(entry) ==
    Coalesce(Coalesce(ApplyTransform(GetSourceValue(mapIn.row, entry.spec.from),
                                     entry.spec.transform),
                      entry.spec.default), Null)

\* the record has, for every requested shoe transform, the value of it
AppliesRequested(answer) ==
    answer.status = 200 =>
        \A i \in ShoeRequests :
            FieldOf(answer.record, "shoe_size")
                = RequestedValue(mapIn.mapping.fieldMappings[i])

\* the headers of the row that ensureShoeMapping takes for shoe columns
ShoeHeaders ==
    { i \in 1..Len(mapIn.row) : NormalizeKey(mapIn.row[i].k) \in ShoeKeys }

\* C22: whenever the mapping names a transform of its own for
\* models.shoe_size, the shoe size of the record is the value of that
\* transform, in the record preview shows and in the one confirm forwards.
C22_RequestedShoeTransformApplied ==
    AppliesRequested(mapOut.preview) /\ AppliesRequested(mapOut.confirm)

\* what the code does guarantee: a requested transform other than
\* parseNumber is applied at preview, and at confirm when the file has no
\* column ensureShoeMapping takes for a shoe column
C22_RequestedUnlessGeneric ==
    LET specific == \A i \in ShoeRequests :
            mapIn.mapping.fieldMappings[i].spec.transform # "parseNumber"
    IN  /\ specific => AppliesRequested(mapOut.preview)
        /\ (specific /\ ShoeHeaders = {}) => AppliesRequested(mapOut.confirm)

\* parseUkShoeMax is requested for a cell "UK 6-7": preview shows 7, and
\* confirm forwards 6, the minimum of the gender-aware transform
C22_ConfirmReplacesRequested ==
    /\ mapIn.mapping = MappingOf(<<NameEntry, ShoeEntry("parseUkShoeMax")>>)
    /\ mapIn.row[2] = Cell("Shoe Size", "UK 6-7")
    /\ mapOut.preview.status = 200 /\ mapOut.confirm.status = 200
    /\ mapOut.preview.record["shoe_size"] = JsNumber(Units(7))
    /\ mapOut.confirm.record["shoe_size"] = JsNumber(Units(6))

\* parseNumber is requested for a cell "EU 39" of a file of men: preview
\* shows 5, not 39
C22_GenericReplaced ==
    /\ mapIn.mapping = MappingOf(<<NameEntry, ShoeEntry("parseNumber")>>)
    /\ mapIn.row[2] = Cell("shoes", "EU 39")
    /\ mapIn.gender = "male"
    /\ mapOut.preview.status = 200
    /\ mapOut.preview.record["shoe_size"] = JsNumber(Units(5))

(***************************************************************************)
(* SpecCm: one call of SAFE_TRANSFORMS.toCentimeters(v)                    *)
(***************************************************************************)
CmInputs ==
    { Null, Undefined }
      \cup { lead \o number \o unit :
                 lead \in {"", "approx ", "N/A "},
                 number \in {"", "5", "170", "67.5", "1.2.3", "-"},
                 unit \in {"", "cm", " CM", "in", "\"", "'", " ft", " tall",
                           "'7\"", "kg", " "} }

CmInit ==
    /\ mapIn \in [v : CmInputs]
    /\ mapOut = [done |-> FALSE, result |-> Null]
    /\ env = [anthropicKey |-> TRUE, supabase |-> TRUE]
    /\ models = << >>
    /\ reqs = << >>
    /\ started = 0
    /\ OtherIdle

CallToCentimeters ==
    /\ ~mapOut.done
    /\ mapOut' = [done |-> TRUE, result |-> ToCentimeters(mapIn.v)]
    /\ UNCHANGED <<env, models, reqs, started, mapIn>>
    /\ UNCHANGED otherVars

CmNext == CallToCentimeters

SpecCm == CmInit /\ [][CmNext]_vars

\* the input holds a digit
HasDigit(v) == \E i \in 1..Len(v) : Ch(v, i) \in Digits

\* the input is null, empty or a text without a number
NoNumberIn(v) == IsNullish(v) \/ v = "" \/ ~HasDigit(v)

\* C23: toCentimeters returns null whenever its input is null, empty or a
\* text that holds no parseable number; it returns no number for such input.
C23_NullWithoutNumber ==
    (mapOut.done /\ NoNumberIn(mapIn.v)) => mapOut.result = Null

\* what the code does guarantee: null for a null or an empty input; for a
\* text without a digit, null when the text holds a dot or a minus sign and
\* the number 0 otherwise
C23_ZeroOrNullWithoutNumber ==
    (mapOut.done /\ NoNumberIn(mapIn.v)) =>
        IF IsNullish(mapIn.v) \/ mapIn.v = "" THEN mapOut.result = Null
        ELSE IF \E i \in 1..Len(mapIn.v) : Ch(mapIn.v, i) \in {".", "-"}
        THEN mapOut.result = Null
        ELSE mapOut.result = JsNumber(0)

\* the text "N/A kg" holds no digit and is turned into 0 centimeters
C23_TextBecomesZero ==
    /\ mapOut.done
    /\ mapIn.v = "N/A kg"
    /\ mapOut.result = JsNumber(0)

(***************************************************************************)
(* SpecGender: one call of inferGenderFromFilename(fileName)               *)
(***************************************************************************)
NameWords ==
    { "trans_man", "transwoman", "Trans", "nb", "women", "men", "boys",
      "humans", "x-division", "womensday" }

\* names of files made of two words
GenderFileNames ==
    { a \o sep \o b \o ".csv" :
          a \in NameWords, b \in NameWords, sep \in {"_", " - "} }

GenderInit ==
    /\ mapIn \in [fileName : GenderFileNames]
    /\ mapOut = [done |-> FALSE, result |-> Null]
    /\ env = [anthropicKey |-> TRUE, supabase |-> TRUE]
    /\ models = << >>
    /\ reqs = << >>
    /\ started = 0
    /\ OtherIdle

CallInferGender ==
    /\ ~mapOut.done
    /\ mapOut' = [done |-> TRUE,
                  result |-> InferGenderFromFilename(mapIn.fileName)]
    /\ UNCHANGED <<env, models, reqs, started, mapIn>>
    /\ UNCHANGED otherVars

GenderNext == CallInferGender

SpecGender == GenderInit /\ [][GenderNext]_vars

\* the tags of a gender in their order of precedence, each with the hints
\* looked up as tokens and the hints looked up between underscores
GenderTags ==
    << [tag |-> "transman", tokens |-> {"transman"}, bounded |-> {"trans_man"}],
       [tag |-> "transwoman", tokens |-> {"transwoman"},
        bounded |-> {"trans_woman"}],
       [tag |-> "transgender", tokens |-> {"transgender"}, bounded |-> {"trans"}],
       [tag |-> "non-binary", tokens |-> {"nonbinary", "nb", "enby"},
        bounded |-> {"non_binary", "x_division"}],
       [tag |-> "female", tokens |-> SeqToSet(FemaleHints),
        bounded |-> SeqToSet(FemaleHints)],
       [tag |-> "male", tokens |-> SeqToSet(MaleHints),
        bounded |-> SeqToSet(MaleHints)] >>

\* the positions of the tags a hint of which the name of the file matches
MatchingTags(fileName) ==
    LET n == NormalizeFilenameForSearch(fileName)
    IN  { i \in 1..Len(GenderTags) :
            \/ GenderTags[i].tokens \cap n.tokens # {}
            \/ \E t \in GenderTags[i].bounded : HasBounded(n.underscored, t) }

\* C24: the gender inferred from the name of a file is the earliest tag, in
\* the order transman, transwoman, transgender, non-binary, female, male,
\* of which the name matches a hint, and null when it matches none.
C24_EarliestTagWins ==
    mapOut.done =>
        IF MatchingTags(mapIn.fileName) = {} THEN mapOut.result = Null
        ELSE mapOut.result
               = GenderTags[SetMin(MatchingTags(mapIn.fileName))].tag

\* a name with trans_man and boys matches transman, transgender and male,
\* and transman is inferred
C24_Witness ==
    /\ mapOut.done
    /\ mapIn.fileName = "trans_man - boys.csv"
    /\ MatchingTags(mapIn.fileName) = {1, 3, 6}
    /\ mapOut.result = "transman"

\* a name without a hint infers no gender
C24_NoHint ==
    /\ mapOut.done
    /\ mapIn.fileName = "humans_womensday.csv"
    /\ mapOut.result = Null

(***************************************************************************)
(* SpecSource: applyMappingToRow on a mapping of one field, whose `from`   *)
(* names several columns of the row                                        *)
(***************************************************************************)
SourceRows ==
    { << Cell("Hair", "Black"), Cell("hair colour", "brown"), Cell("City", "") >>,
      << Cell("Hair", " "), Cell("HAIR COLOUR", "purple haze"),
         Cell("City", "Paris") >>,
      << Cell("hair", ""), Cell("Hair-Colour", "Grey"), Cell("city", "Rome"),
         Cell("City", " ") >> }

SourceFroms ==
    { FromArr(<<"Hair", "Hair Colour">>), FromArr(<<"hair colour", "Hair">>),
      FromArr(<<"Town", "hair_colour", "City">>), FromStr("City"),
      FromStr("Town"), NoFrom }

SourceEntries ==
    { Entry(key, FieldSpec(from, transform, default)) :
          key \in {"models.hair_colour", "models.location"},
          from \in SourceFroms,
          transform \in {Undefined, "uppercase"},
          default \in {Undefined, "unknown"} }

SourceInit ==
    /\ mapIn \in [row : SourceRows,
                  mapping : { MappingOf(<<e>>) : e \in SourceEntries },
                  opts : {[gender |-> "female", modelBoard |-> Null,
                           dataSource |-> "women.csv"]}]
    /\ mapOut = [done |-> FALSE, result |-> NoResult]
    /\ env = [anthropicKey |-> TRUE, supabase |-> TRUE]
    /\ models = << >>
    /\ reqs = << >>
    /\ started = 0
    /\ OtherIdle

SpecSource == SourceInit /\ [][MapperNext]_vars

\* the entry of the mapping and the column it targets
MappedEntry == mapIn.mapping.fieldMappings[1]
MappedColumn == Split(MappedEntry.key, ".")[2]

\* what the candidate cand yields: the value under the key cand itself, or
\* else under the header whose normalized form is that of cand
YieldOf(cand) ==
    SourceAt(mapIn.row, cand, NormalizedKeyOf(mapIn.row, NormalizeKey(cand)))

\* the candidates of the entry that yield a value that is not empty
Yielding ==
    { i \in 1..Len(MappedEntry.spec.from.v) :
          ~IsNullish(YieldOf(MappedEntry.spec.from.v[i]).keyUsed) }

\* the value of the first candidate that yields one, transformed
TransformedSource ==
    LET src == YieldOf(MappedEntry.spec.from.v[SetMin(Yielding)])
    IN  ApplyTransform(src.value,
            TransformToApply("models", MappedColumn, MappedEntry.spec.transform,
                             src.keyUsed, mapIn.opts))

DefaultOrNull == Coalesce(MappedEntry.spec.default, Null)

\* C25: the first candidate of `from`, in order, that yields a value that is
\* neither empty nor null supplies the transformed value of the field, and
\* the default of the field, else null, is used exactly when no candidate
\* yields such a value.
C25_DefaultOnlyWithoutSource ==
    mapOut.done =>
        mapOut.result.models[MappedColumn]
            = IF Yielding # {} THEN TransformedSource ELSE DefaultOrNull

\* C25 as the code has it: the first candidate that yields a value supplies
\* it, and the default, else null, is used when no candidate yields a value
\* and also when the transform turns the value found into null.
C25_DefaultWhenTransformedNull ==
    mapOut.done =>
        mapOut.result.models[MappedColumn]
            = IF Yielding # {} /\ ~IsNullish(TransformedSource)
              THEN TransformedSource ELSE DefaultOrNull

\* the second candidate supplies the value because the first yields only
\* white space, and the header is found by its normalized form
C25_Witness ==
    /\ mapOut.done
    /\ MappedEntry = Entry("models.location",
                           FieldSpec(FromArr(<<"Town", "hair_colour", "City">>),
                                     "uppercase", "unknown"))
    /\ mapIn.row[2] = Cell("Hair-Colour", "Grey")
    /\ Yielding = {2}
    /\ mapOut.result.models["location"] = "GREY"

\* a value is found for hair_colour, the enum transform turns it into null,
\* and the default is stored
C25_DefaultAfterTransform ==
    /\ mapOut.done
    /\ MappedEntry.key = "models.hair_colour"
    /\ Yielding # {}
    /\ YieldOf(MappedEntry.spec.from.v[SetMin(Yielding)]).value = "purple haze"
    /\ mapOut.result.models["hair_colour"] = "unknown"


(***************************************************************************)
(* The record a row's media are attached to                                *)
(*                                                                         *)
(* Every link of LinkRequests belongs to one row of its file, so that the  *)
(* row a media row was made of is the row that holds its link.             *)
(***************************************************************************)
\* the rows of the file of p that hold the link
RowsOfLink(p, link) ==
    { k \in 1..Len(p.transformed) :
          \E n \in 1..Len(p.transformed[k].links) :
              p.transformed[k].links[n] = link }

\* two media rows prepared by p that were made of two rows of its file
OfTwoRows(p, a, b) ==
    \E i \in RowsOfLink(p, p.mediaRows[a].link) :
        \E j \in RowsOfLink(p, p.mediaRows[b].link) : i # j

\* C26: the media rows prepared for two distinct rows of one file never
\* carry the same model_id.
C26_MediaOfTwoRowsApart ==
    \A p \in pending :
        \A a, b \in 1..Len(p.mediaRows) :
            OfTwoRows(p, a, b) =>
                p.mediaRows[a].model_id # p.mediaRows[b].model_id

\* the names of the rows of the file are pairwise distinct
DistinctNames(p) ==
    \A i, j \in 1..Len(p.transformed) :
        i # j => p.transformed[i].model_name # p.transformed[j].model_name

\* the part of C26 that the code keeps: the media of two rows of different
\* names are attached to different records
C26_ApartWhenNamesDiffer ==
    \A p \in pending :
        DistinctNames(p) =>
            \A a, b \in 1..Len(p.mediaRows) :
                OfTwoRows(p, a, b) =>
                    p.mediaRows[a].model_id # p.mediaRows[b].model_id

\* two rows named ana were inserted as two records, and the media of both
\* have been stored with the id of one of them
C26_TwoRowsOneRecord ==
    \E p \in pending :
        /\ p.pc = "done"
        /\ p.success
        /\ p.insertedTotal = 2
        /\ \E id \in 1..Len(db.models) :
               /\ MediaRow(id, "ig/ana1") \in SeqToSet(db.models_media)
               /\ MediaRow(id, "ig/ana2") \in SeqToSet(db.models_media)

\* the media of ana and of bea have been stored with different ids
C26_TwoNamesTwoRecords ==
    \E p \in pending :
        /\ p.pc = "done"
        /\ p.success
        /\ \E m, n \in 1..Len(db.models_media) :
               /\ db.models_media[m].link = "ig/ana1"
               /\ db.models_media[n].link = "ig/bea"
               /\ db.models_media[m].model_id # db.models_media[n].model_id


(***************************************************************************)
(* The counters of the report of confirm                                   *)
(***************************************************************************)
\* the confirm in slot s has returned its report
Reported(s) ==
    /\ reqs[s].kind = "confirm"
    /\ reqs[s].pc = "done"
    /\ reqs[s].status = 200

\* the rows counted as succeeded, by the chunks they were sent in
SucceededRows(s) ==
    UNION { SeqToSet(reqs[s].chunks[k].stored) : k \in 1..Len(reqs[s].chunks) }

\* C27: when confirm has run its batch loop, processed is the number of
\* rows of the file and processed = succeeded + failed + skipped; the rows
\* counted as skipped, as failed and as succeeded are disjoint and make up
\* the rows of the file, whatever became of each chunk; the report carries
\* these counters.
C27_CountersPartitionRows ==
    \A s \in Slots :
        Reported(s) =>
            LET r == reqs[s]
                n == Len(r.form.file.rows)
                skippedRows == RowIndexesOf(r.warnings)
                failedRows == SeqToSet(r.failedRows)
            IN  /\ r.processed = n
                /\ r.processed = r.succeeded + r.failed + r.skipped
                /\ r.skipped = Cardinality(skippedRows)
                /\ r.failed = Cardinality(failedRows)
                /\ r.failed = Len(r.failedRows)
                /\ r.succeeded = Cardinality(SucceededRows(s))
                /\ skippedRows \cap failedRows = {}
                /\ skippedRows \cap SucceededRows(s) = {}
                /\ failedRows \cap SucceededRows(s) = {}
                /\ skippedRows \cup failedRows \cup SucceededRows(s) = 1..n
                /\ r.body.message =
                       "Processed " \o ToString(n)
                           \o " models via external upsert (succeeded "
                           \o ToString(r.succeeded) \o ", failed "
                           \o ToString(r.failed) \o ", skipped "
                           \o ToString(r.skipped) \o ")."
                /\ r.body.data.warnings.count = r.skipped
                /\ r.body.data.failures.count = r.failed

\* a confirm has reported on a file of which rows were skipped, one chunk
\* got an HTTP error and the other an answer in which some items were
\* missing or malformed and others stored
C27_Witness ==
    \E s \in Slots :
        /\ Reported(s)
        /\ reqs[s].skipped > 0
        /\ \E k \in 1..Len(reqs[s].chunks) : reqs[s].chunks[k].kind = "http"
        /\ \E k \in 1..Len(reqs[s].chunks) :
               /\ reqs[s].chunks[k].kind = "ok"
               /\ reqs[s].chunks[k].stored # << >>
               /\ Len(reqs[s].chunks[k].stored) < Len(reqs[s].chunks[k].rows)

\* a confirm has reported after a chunk whose request threw, a chunk that
\* got an HTTP error and a chunk answered without any item
C27_EveryKindOfFailure ==
    \E s \in Slots :
        /\ Reported(s)
        /\ Len(reqs[s].chunks) = 3
        /\ reqs[s].chunks[1].kind = "throw"
        /\ reqs[s].chunks[2].kind = "http"
        /\ reqs[s].chunks[3].kind = "ok"
        /\ reqs[s].succeeded = 0
        /\ reqs[s].failed = reqs[s].processed


(***************************************************************************)
(* The record of preview and the record of confirm                         *)
(***************************************************************************)
\* both routes have answered the row with a record
BothAnswered == mapOut.preview.status = 200 /\ mapOut.confirm.status = 200

\* C28: for the same file, gender field and mapping, the record preview
\* shows for a row is the record confirm makes of that row and forwards.
C28_PreviewIsConfirm ==
    BothAnswered => mapOut.preview.record = mapOut.confirm.record

\* the part of C28 that the code keeps: the two records are the same when
\* the file has no column ensureShoeMapping takes for a shoe column, and
\* they differ in models.shoe_size at most
C28_SameWithoutShoeColumn ==
    BothAnswered =>
        /\ ShoeHeaders = {} => mapOut.preview.record = mapOut.confirm.record
        /\ \A f \in ModelsColumns \ {"shoe_size"} :
               FieldOf(mapOut.preview.record, f)
                   = FieldOf(mapOut.confirm.record, f)

\* the mapping has no entry for models.shoe_size and women.csv a column
\* "Shoe Size" that reads "UK 6-7": the record preview shows has no shoe
\* size, the one confirm forwards has the size 6
C28_ShoeSizeOnlyAtConfirm ==
    /\ BothAnswered
    /\ mapIn.file = "women.csv"
    /\ mapIn.mapping = MappingOf(<<NameEntry, HeightEntry>>)
    /\ ~HasField(mapOut.preview.record, "shoe_size")
    /\ FieldOf(mapOut.confirm.record, "shoe_size") = JsNumber(Units(6))

\* the file has no shoe column and both routes show the same record, with
\* the height the mapping asks for
C28_SameRecord ==
    /\ BothAnswered
    /\ ShoeHeaders = {}
    /\ mapOut.preview.record = mapOut.confirm.record
    /\ FieldOf(mapOut.preview.record, "height") # Null


(***************************************************************************)
(* The file of the preview the console holds                               *)
(***************************************************************************)
\* C29: the preview the console holds was computed for the file that is
\* selected, whenever the responses of the preview and regenerate requests
\* arrive.
C29_PreviewOfSelectedFile ==
    home.preview.present =>
        /\ home.file.present
        /\ home.preview.data_source = home.file.name
        /\ \E proposal \in ProposedMappings :
               home.preview.mapping = ProposedFor(proposal, home.file.name)

\* the part of C29 that the code keeps: a preview is installed only by the
\* continuation of handleSubmit or handleRegenerate, and it is the one
\* computed for the file of the request that continuation had issued
C29_PreviewOfRequestedFile ==
    [][(home'.preview # home.preview /\ home'.preview.present) =>
           \E task \in pending \ pending' :
               /\ task.handler \in {"handleSubmit", "handleRegenerate"}
               /\ home'.preview.data_source = task.file
               /\ \E proposal \in ProposedMappings :
                      home'.preview.mapping = ProposedFor(proposal, task.file)
      ]_vars

\* list.csv is selected and the console holds the preview computed for
\* women.csv, before any confirm was sent
C29_PreviewOfFormerFileHeld ==
    /\ home.file.present
    /\ home.file.name = "list.csv"
    /\ home.preview.present
    /\ home.preview.data_source = "women.csv"
    /\ UpsertRequests = {}
    /\ pending = {}

\* the response of a regenerate request issued for women.csv has replaced
\* the preview while list.csv was selected
C29_LateRegenerateInstalled ==
    /\ home.file.present
    /\ home.file.name = "list.csv"
    /\ home.preview.present
    /\ home.preview.data_source = "women.csv"
    /\ home.uploadResult = UploadResult(TRUE,
                               "Mapping regenerated using your feedback.")


(***************************************************************************)
(* The existence check without an answer                                   *)
(***************************************************************************)
\* the existence check of the request in slot s got no answer: the store
\* credentials are missing or the count query returned an error
Unanswered(s) == ~env.supabase \/ ~reqs[s].queryOk

\* what the check of request r leaves when the store holds no row of its
\* data_source and the query answers, with the history fields of after
AsNeverIngested(r, after) ==
    LET fresh == IF r.kind = "preview"
                 THEN PreviewChecked(r, TRUE, FALSE, FALSE)
                 ELSE AfterConfirmCheck(Seen(r, TRUE, FALSE, FALSE), FALSE)
    IN  [fresh EXCEPT !.queryOk = after.queryOk, !.storeHad = after.storeHad]

\* C30: when the store credentials are missing or the existence query
\* returns an error, the check reports that the data_source does not exist
\* and no 409 is returned; preview and confirm go on from the check as
\* they do for a data_source without any stored row.
C30_GuardFailsOpen ==
    /\ [](\A s \in Slots :
             (reqs[s].checked /\ Unanswered(s)) =>
                 /\ ~reqs[s].exists
                 /\ reqs[s].status # 409)
    /\ [][\A s \in Slots :
             (reqs[s].pc = "check" /\ reqs'[s].checked
                  /\ (~env.supabase \/ ~reqs'[s].queryOk)) =>
                 reqs'[s] = AsNeverIngested(reqs[s], reqs'[s])]_vars

\* a confirm whose existence query returned an error has stored records
\* for a data_source that already had rows in the store
C30_Witness ==
    \E s \in Slots :
        /\ reqs[s].kind = "confirm"
        /\ reqs[s].checked
        /\ ~reqs[s].queryOk
        /\ reqs[s].storeHad
        /\ reqs[s].pc = "done" /\ reqs[s].status = 200
        /\ reqs[s].succeeded > 0

\* without store credentials a preview of a data_source that has rows in
\* the store has reached the proposer
C30_PreviewWithoutCredentials ==
    \E s \in Slots :
        /\ reqs[s].kind = "preview"
        /\ ~env.supabase
        /\ CountOf(models, reqs[s].dataSource) > 0
        /\ reqs[s].checked
        /\ reqs[s].pc = "call"

=============================================================================
